---- MODULE Spec2Model ----
(***************************************************************************)
(* Verification model of the ANDES model/equation/solve core:              *)
(*   - andes/routines/powerflow.py : run, newton, calc_inc, fdpf           *)
(*   - andes/core/model.py         : ModelData (add, find_idx,             *)
(*                                   __setattr__), Model (__setattr__,     *)
(*                                   idx2uid, get, store_sparse_pattern,   *)
(*                                   s_update, init, get_inputs, alter,    *)
(*                                   set, f_update, g_update, j_update),   *)
(*                                   SymProcessor (generate_symbols,       *)
(*                                   _check_expr_symbols,                  *)
(*                                   generate_jacobians)                   *)
(* Ten specifications share the module: SpecPF (power flow routine),       *)
(* SpecIdx (index lists of fdpf), SpecData (device container), SpecFind    *)
(* (search by value), SpecReg (attribute registry and symbol generation),  *)
(* SpecJac (compiled Jacobians and sparsity pattern), SpecRun              *)
(* (initialization, services and value arrays), SpecUpd (triplet store and *)
(* the f, g and j update calls), SpecSvc (values of the services) and      *)
(* SpecInp (input map).  SpecPFLive is SpecPF with the fairness of         *)
(* straight-line code.                                                     *)
(***************************************************************************)
EXTENDS Integers, Naturals, Sequences, FiniteSets, TLC

VARIABLES
    \* ---- power flow routine (powerflow.py) ----
    pc,           \* position inside run(): start, newton, fdpf, solved, returned, raised
    method,       \* system.SPF.method
    sparselib,    \* system.config.sparselib
    lib,          \* module global `lib`
    tol,          \* system.SPF.tol
    maxit,        \* system.SPF.maxit
    niter,        \* local niter / system.SPF.iter
    mis0,         \* iter_mis[0] / err_vec[0] (the only element ever read); -1 while the list is empty
    error,        \* max_mis / system.config.error
    res,          \* max |[DAE.f, DAE.g]| evaluated at the start of the last step
    convergence,  \* local convergence flag
    outcome,      \* which exit of the solver loop was taken
    factorize,    \* system.DAE.factorize
    F,            \* module global F: 0 is None, k > 0 the k-th symbolic factorization
    usedF,        \* the factorization handed to lib.numeric in the last step
    lastExc,      \* except-branch taken by the last calc_inc
    post,         \* post_processing(system) has been executed
    ret,          \* value returned by run()
    Bus_a,        \* system.Bus.a: angle addresses of the buses
    Bus_v,        \* system.Bus.v: voltage addresses of the buses
    SW_a,         \* system.SW.a: angle addresses of the buses of the slack generators
    PV_a,         \* system.PV.a: angle addresses of the buses of the PV generators
    no_sw,        \* fdpf local no_sw: indices of the P-theta sub-block
    no_swv,       \* fdpf local no_swv
    no_g,         \* fdpf local no_g
    no_gv,        \* fdpf local no_gv: indices of the Q-V sub-block
    indexing,     \* fdpf index building: todo, done, or the exception that ended it
    \* ---- device container (model.py, ModelData and Model.get) ----
    n,            \* self.n
    uid,          \* self.uid: dictionary idx -> position
    idx_v,        \* self.idx.v
    u_v,          \* self.u.v
    name_v,       \* self.name.v
    p_v,          \* self.p.v, a NumParam declared by the model
    added,        \* the keyword data of the add calls so far, in call order
    op,           \* the last operation called on the container
    found,        \* arguments and result of the last find_idx call
    got,          \* arguments and result of the last get call
    \* ---- attribute registry and symbol generation (model.py, Model and SymProcessor) ----
    dict,            \* self.__dict__ restricted to the declared attributes
    params,          \* ModelData.params
    num_params,      \* ModelData.num_params
    idx_params,      \* ModelData.idx_params
    timer_params,    \* ModelData.timer_params
    states,          \* Model.states
    states_ext,      \* Model.states_ext
    algebs,          \* Model.algebs
    algebs_ext,      \* Model.algebs_ext
    vars_decl_order, \* Model.vars_decl_order
    params_ext,      \* Model.params_ext
    discrete,        \* Model.discrete
    services,        \* Model.services
    services_ref,    \* Model.services_ref
    services_ext,    \* Model.services_ext
    services_ops,    \* Model.services_ops
    nobj,            \* number of objects created so far (object identity)
    warned,          \* the last assignment logged a redefinition warning
    cache,           \* Model.cache: the cached views used by SymProcessor
    tex_sym,         \* the values of Model.tex_names have been turned into Symbols
    inputs_dict,     \* SymProcessor.inputs_dict (its keys, in order)
    vars_dict,       \* SymProcessor.vars_dict (its keys, in order)
    prep,            \* outcome of prepare() when it was the last operation
    calls_jac,       \* ModelCall.ijac/jjac: the compiled triplets, in append order
    \* ---- numerical life cycle of a model (model.py) ----
    in_use,          \* Model.in_use
    address,         \* Model.flags['address']
    ext_len,         \* length of the address array of an external variable
    triplets,        \* Model.triplets: the entries appended by store_sparse_pattern
    ssp,             \* outcome of store_sparse_pattern() when it was the last operation,
                     \* and whether the pattern was stored already when it was called
    initialized,     \* Model.flags['initialized']
    nr_iter,         \* Model.flags['nr_iter']
    listed,          \* list2array() has turned the value lists into arrays
    v_id,            \* identity of the value array .v of every object (0: no array yet)
    v_val,           \* what was last written into the value array of every object
    input,           \* Model._input: name -> identity of the array filed under it
    narr,            \* number of arrays allocated so far (identity of the last one)
    ncall,           \* number of init() and s_update() calls made so far
    ini,             \* outcome of init() when it was the last operation
    sup,             \* the evaluations made by the last s_update()
    j_num,           \* Model.flags['j_num']
    blocks,          \* Model.blocks: flags['j_num'] of every block, in order
    e_src,           \* the variable whose residual was last written into the array e of every variable
    v_shape          \* what the attribute v of every object is bound to: list, array or scalar

fdVars == <<Bus_a, Bus_v, SW_a, PV_a, no_sw, no_swv, no_g, no_gv, indexing>>

pfVars == <<pc, method, sparselib, lib, tol, maxit, niter, mis0, error, res,
            convergence, outcome, factorize, F, usedF, lastExc, post, ret,
            fdVars>>

dataVars == <<n, uid, idx_v, u_v, name_v, p_v, added, op, found, got>>

collVars == <<dict, params, num_params, idx_params, timer_params, states,
              states_ext, algebs, algebs_ext, vars_decl_order, params_ext,
              discrete, services, services_ref, services_ext, services_ops>>

regVars == <<collVars, nobj, warned, cache, tex_sym, inputs_dict, vars_dict, prep,
             calls_jac>>

runVars == <<initialized, nr_iter, listed, v_id, v_val, input, narr, ncall, ini, sup>>

updVars == <<j_num, blocks, e_src, v_shape>>

numVars == <<in_use, address, ext_len, triplets, ssp, runVars, updVars>>

vars == <<pfVars, dataVars, regVars, numVars>>

-----------------------------------------------------------------------------
(* Bounds *)

\* largest configured iteration cap explored
MaxMaxit == 7

\* largest number of devices added to a container
MaxDev == 2

\* largest number of queries in one find_idx call
MaxQ == 2

\* largest number of attribute assignments made on a model after construction
MaxAssign == 2

\* largest number of init() and s_update() calls made on a model
MaxCalls == 1

\* largest number of blocks of a model
MaxBlocks == 1

\* largest number of buses of a system
MaxBus == 3

\* largest number of slack generators, and of PV generators, of a system
MaxGen == 2

-----------------------------------------------------------------------------
(* Power flow routine *)

\* mismatch magnitudes (in units of the smallest tolerance)
MisVals == {0, 1, 2, 1000, 1001, 2001}

\* configured tolerances
TolVals == {1, 2}

\* powerflow.py:22-28
solvers == [k \in {"NR", "Newton", "FDPF", "FDBX", "FDXB"} |->
               IF k \in {"NR", "Newton"} THEN "newton" ELSE "fdpf"]

\* method names a user may configure; "XYZ" is not a key of solvers
MethodNames == {"NR", "FDPF", "XYZ"}

\* sparse libraries a user may configure
SparseLibs == {"umfpack", "klu", "spooles"}

\* system.config.sparselib_alt
sparselib_alt == {"umfpack", "klu"}

\* whether the optional cvxoptklu import succeeded (powerflow.py:10-14)
KLU == TRUE

\* configured iteration caps
MaxitVals == {0, 2, MaxMaxit}

Max2(a, b) == IF a >= b THEN a ELSE b

-----------------------------------------------------------------------------
(* Device container: ModelData.add, ModelData.find_idx, Model.idx2uid,     *)
(* Model.get.  Python values are pairs <<type, value>>.                    *)

PyInt(i) == <<"int", i>>
PyNone == <<"none", 0>>
PyFalse == <<"bool", 0>>
\* a str is the sequence of its characters
PyStr(chars) == <<"str", chars>>

\* Python `==` on the values above: bool is a subclass of int, so False == 0
PyEq(a, b) ==
    IF a[1] \in {"int", "bool"} /\ b[1] \in {"int", "bool"}
    THEN a[2] = b[2]
    ELSE a = b

\* the key under which a dict files a value: equal values share one key
DictKey(a) == IF a[1] = "bool" THEN <<"int", a[2]>> ELSE a

\* idx values supplied to add
IdxVals == {PyInt(0), PyInt(1), PyNone}

\* values supplied for the numeric parameters u and p
NumVals == {PyInt(0), PyInt(1)}

NoFind == [keys |-> <<>>, values |-> <<>>, allow |-> FALSE, raised |-> FALSE, out |-> <<>>,
           single |-> FALSE, given |-> <<>>]
NoGet == [src |-> "", idx |-> PyNone, exc |-> "None", val |-> PyNone]

\* ModelData.__init__, model.py:160-177, and a model declaring self.p = NumParam()
InitData ==
    /\ n = 0
    /\ uid = <<>>
    /\ idx_v = <<>>
    /\ u_v = <<>>
    /\ name_v = <<>>
    /\ p_v = <<>>
    /\ added = <<>>
    /\ op = "none"
    /\ found = NoFind
    /\ got = NoGet

\* state of the routine before run() is called with the given configuration;
\* the module global F is None (powerflow.py:20) and DAE.factorize is set
PFConfig(m, sl, t, mx) ==
    /\ pc = "start"
    /\ method = m
    /\ sparselib = sl
    /\ lib = "umfpack"
    /\ tol = t
    /\ maxit = mx
    /\ niter = 0
    /\ mis0 = -1
    /\ error = 0
    /\ res = 0
    /\ convergence = FALSE
    /\ outcome = "None"
    /\ factorize = TRUE
    /\ F = 0
    /\ usedF = 0
    /\ lastExc = "None"
    /\ post = FALSE
    /\ ret = FALSE

\* run(), powerflow.py:50-53: an unrecognised method name is rewritten to
\* 'NR' and the solver function is looked up in solvers
SelectedMethod(m) == IF m \notin DOMAIN solvers THEN "NR" ELSE m

\* run(), powerflow.py:37-55: sparse library check, solver selection and the
\* prologue of the selected solver (newton: 87-92, fdpf: 163-171).
\* The assert at line 40 raises before any solver is started.
RunStart ==
    /\ pc = "start"
    /\ IF sparselib \notin sparselib_alt
       THEN /\ pc' = "raised"
            /\ UNCHANGED <<method, sparselib, lib, niter, convergence, error>>
       ELSE LET m == SelectedMethod(method)
                useKlu == sparselib = "klu" /\ KLU
            IN /\ method' = m
               /\ sparselib' = IF useKlu THEN sparselib ELSE "umfpack"
               /\ lib' = IF useKlu THEN "klu" ELSE "umfpack"
               /\ pc' = solvers[m]
               /\ IF solvers[m] = "newton"
                  THEN /\ niter' = 0
                       /\ convergence' = FALSE
                       /\ error' = error
                  ELSE /\ niter' = 1
                       /\ convergence' = TRUE
                       /\ error' = tol + 1
    /\ UNCHANGED <<tol, maxit, mis0, res, outcome, factorize, F, usedF,
                   lastExc, post, ret>>
    /\ UNCHANGED <<fdVars, dataVars, regVars, numVars>>

\* a convergence test that also accepts a mismatch equal to the tolerance
Converged_m(mis, t) == mis <= t

\* newton, powerflow.py:108: convergence test
Converged(mis, t) == mis < t

\* a divergence heuristic that fires one iteration early
BlownUp_m(it, mis, first) == it > 4 /\ mis > 1000 * first

\* newton, powerflow.py:111: divergence heuristic
BlownUp(it, mis, first) == it > 5 /\ mis > 1000 * first

\* an iteration cap that lets one more iteration through
CapReached_m(it, cap) == it > cap + 1

\* newton, powerflow.py:114: iteration cap
CapReached(it, cap) == it > cap

\* newton, powerflow.py:108-116: which break, if any, ends the loop
NewtonExit(it, mis, first, t, cap) ==
    IF Converged(mis, t) THEN "Converged"
    ELSE IF BlownUp(it, mis, first) THEN "Diverged"
    ELSE IF CapReached(it, cap) THEN "MaxIterExceeded"
    ELSE "None"

\* calc_inc, powerflow.py:135-154, once the symbolic factorization is at hand.
\*   r   : max |[f, g]| after exec(system.Call.newton)
\*   x   : max |A^-1 [f, g]|, what lib.solve leaves in inc when it succeeds
\*   slv : result of lib.numeric / lib.solve
\* On an exception inc still holds the residual; ValueError sets the
\* refactorization flag, ArithmeticError calls diag0 on DAE.Gy.
CalcInc(r, x, slv) ==
    [inc       |-> IF slv = "ok" THEN x ELSE r,
     factorize |-> (slv = "ValueError"),
     exc       |-> slv]

\* a calc_inc that recomputes the symbolic factorization in every step
Symbolic_m(flag, it, f) == it

\* calc_inc, powerflow.py:137-139: the symbolic factorization handed to
\* lib.numeric, recomputed (and named after the iteration `it`) when the
\* refactorization flag is set and the module global F otherwise
Symbolic(flag, it, f) == IF flag THEN it ELSE f

\* One pass of the while loop of newton (powerflow.py:93-116) in which
\* calc_inc returns.
NewtonStep(r, x, slv) ==
    /\ pc = "newton"
    /\ (slv = "ok") => ((x = 0) <=> (r = 0))
    /\ LET c   == CalcInc(r, x, slv)
           it  == niter + 1
           m0  == IF mis0 = -1 THEN c.inc ELSE mis0
           out == NewtonExit(it, c.inc, m0, tol, maxit)
       IN /\ res' = r
          /\ F' = Symbolic(factorize, it, F)
          /\ usedF' = Symbolic(factorize, it, F)
          /\ factorize' = c.factorize
          /\ lastExc' = c.exc
          /\ niter' = it
          /\ error' = c.inc
          /\ mis0' = m0
          /\ outcome' = out
          /\ convergence' = (out = "Converged")
          /\ pc' = IF out = "None" THEN "newton" ELSE "solved"
    /\ UNCHANGED <<method, sparselib, lib, tol, maxit, post, ret>>
    /\ UNCHANGED <<fdVars, dataVars, regVars, numVars>>

\* calc_inc, powerflow.py:137-139: lib.symbolic(A) is called outside the try
\* block; an exception raised there leaves calc_inc, newton and run.
NewtonSymbolicRaise(r) ==
    /\ pc = "newton"
    /\ factorize
    /\ res' = r
    /\ lastExc' = "Unhandled"
    /\ pc' = "raised"
    /\ UNCHANGED <<method, sparselib, lib, tol, maxit, niter, mis0, error,
                   convergence, outcome, factorize, F, usedF, post, ret>>
    /\ UNCHANGED <<fdVars, dataVars, regVars, numVars>>

\* fdpf, powerflow.py:232: divergence heuristic of the fast-decoupled loop
FdpfBlownUp(it, err, first) == it > 4 /\ err > 1000 * first

\* One pass of the while loop of fdpf (powerflow.py:202-240).
FdpfStep(normP, normQ) ==
    /\ pc = "fdpf"
    /\ error > tol
    /\ LET err == Max2(normP, normQ)
           it  == niter + 1
           e0  == IF mis0 = -1 THEN err ELSE mis0
           out == IF FdpfBlownUp(it, err, e0) THEN "Diverged"
                  ELSE IF CapReached(it, maxit) THEN "MaxIterExceeded"
                  ELSE "None"
       IN /\ error' = err
          /\ mis0' = e0
          /\ niter' = it
          /\ outcome' = out
          /\ convergence' = IF out = "None" THEN convergence ELSE FALSE
          /\ pc' = IF out = "None" THEN "fdpf" ELSE "solved"
    /\ UNCHANGED <<method, sparselib, lib, tol, maxit, res, factorize, F,
                   usedF, lastExc, post, ret>>
    /\ UNCHANGED <<fdVars, dataVars, regVars, numVars>>

\* fdpf, powerflow.py:202: the loop condition fails and fdpf returns
FdpfExit ==
    /\ pc = "fdpf"
    /\ ~(error > tol)
    /\ outcome' = "Converged"
    /\ pc' = "solved"
    /\ UNCHANGED <<method, sparselib, lib, tol, maxit, niter, mis0, error,
                   res, convergence, factorize, F, usedF, lastExc, post, ret>>
    /\ UNCHANGED <<fdVars, dataVars, regVars, numVars>>

\* fdpf, powerflow.py:205-208, 215-218: lib.solve without a try block
FdpfSolveRaise ==
    /\ pc = "fdpf"
    /\ error > tol
    /\ lastExc' = "Unhandled"
    /\ pc' = "raised"
    /\ UNCHANGED <<method, sparselib, lib, tol, maxit, niter, mis0, error,
                   res, convergence, outcome, factorize, F, usedF, post, ret>>
    /\ UNCHANGED <<fdVars, dataVars, regVars, numVars>>

\* a run that post-processes whatever the solver returned
PostProcessed_m(conv) == TRUE

\* run(), powerflow.py:68-70: post_processing is called when convergence holds
PostProcessed(conv) == conv

\* run(), powerflow.py:64-76: the solver returned (convergence, niter)
RunFinish ==
    /\ pc = "solved"
    /\ post' = PostProcessed(convergence)
    /\ ret' = convergence
    /\ pc' = "returned"
    /\ UNCHANGED <<method, sparselib, lib, tol, maxit, niter, mis0, error,
                   res, convergence, outcome, factorize, F, usedF, lastExc>>
    /\ UNCHANGED <<fdVars, dataVars, regVars, numVars>>

\* the address lists fdpf reads: a system of nb buses, whose angle addresses
\* are 0..nb-1 and whose voltage addresses are nb..2nb-1, with slack
\* generators at the buses sw and PV generators at the buses pv
Buses(nb, sw, pv) ==
    /\ Bus_a = [i \in 1..nb |-> i - 1]
    /\ Bus_v = [i \in 1..nb |-> nb + i - 1]
    /\ SW_a = sw
    /\ PV_a = pv
    /\ no_sw = <<>>
    /\ no_swv = <<>>
    /\ no_g = <<>>
    /\ no_gv = <<>>
    /\ indexing = "todo"

\* list.sort(reverse=True) on a list of integers
RECURSIVE SortReverse(_)
SortReverse(l) ==
    IF l = <<>> THEN <<>>
    ELSE LET i == CHOOSE k \in 1..Len(l) : \A j \in 1..Len(l) : l[k] >= l[j]
         IN <<l[i]>> \o SortReverse(SubSeq(l, 1, i - 1) \o SubSeq(l, i + 1, Len(l)))

\* list.pop(i) for i >= 0: the list without the element at (0-based)
\* position i; "IndexError" when the list has no such position
Pop(l, i) ==
    IF i + 1 > Len(l) THEN "IndexError"
    ELSE SubSeq(l, 1, i) \o SubSeq(l, i + 2, Len(l))

\* fdpf, powerflow.py:181-183 and 188-190: `for item in items:
\* a.pop(item); v.pop(item)` on the copies a and v of Bus.a and Bus.v
RECURSIVE PopAll(_, _, _)
PopAll(a, v, items) ==
    IF items = <<>> THEN [exc |-> "None", a |-> a, v |-> v]
    ELSE IF Pop(a, Head(items)) = "IndexError" \/ Pop(v, Head(items)) = "IndexError"
    THEN [exc |-> "IndexError", a |-> <<>>, v |-> <<>>]
    ELSE PopAll(Pop(a, Head(items)), Pop(v, Head(items)), Tail(items))

\* fdpf, powerflow.py:177-190: the index lists of the two sub-blocks.
\* sw is system.SW.a itself, so the sort at line 178 reorders that list.
FdpfIndexing ==
    /\ indexing = "todo"
    /\ LET sw    == SortReverse(SW_a)
           gen   == SortReverse(sw \o PV_a)
           first == PopAll(Bus_a, Bus_v, sw)
           secnd == PopAll(Bus_a, Bus_v, gen)
       IN /\ SW_a' = sw
          /\ indexing' = IF first.exc # "None" THEN first.exc
                         ELSE IF secnd.exc # "None" THEN secnd.exc
                         ELSE "done"
          /\ no_sw' = first.a
          /\ no_swv' = first.v
          /\ no_g' = IF first.exc = "None" THEN secnd.a ELSE <<>>
          /\ no_gv' = IF first.exc = "None" THEN secnd.v ELSE <<>>
    /\ UNCHANGED <<Bus_a, Bus_v, PV_a>>
    /\ UNCHANGED <<pc, method, sparselib, lib, tol, maxit, niter, mis0, error,
                   res, convergence, outcome, factorize, F, usedF, lastExc,
                   post, ret>>
    /\ UNCHANGED <<dataVars, regVars, numVars>>

SolveResults == {"ok", "ValueError", "ArithmeticError"}

NextPF ==
    \/ RunStart
    \/ \E r \in MisVals, x \in MisVals, slv \in SolveResults : NewtonStep(r, x, slv)
    \/ \E r \in MisVals : NewtonSymbolicRaise(r)
    \/ \E p \in MisVals, q \in MisVals : FdpfStep(p, q)
    \/ FdpfExit
    \/ FdpfSolveRaise
    \/ RunFinish

-----------------------------------------------------------------------------
(* Device container operations *)

\* BaseParam.add(value): the value is appended to the parameter's value list
ParamAdd(v, value) == Append(v, value)

\* a container that files the position after counting the new device
UidAfterAdd_m(u, idx, pos) ==
    [k \in DOMAIN u \cup {DictKey(idx)} |-> IF k = DictKey(idx) THEN pos + 1 ELSE u[k]]

\* ModelData.add, model.py:219: self.uid[idx] = self.n
UidAfterAdd(u, idx, pos) ==
    [k \in DOMAIN u \cup {DictKey(idx)} |-> IF k = DictKey(idx) THEN pos ELSE u[k]]

\* ModelData.add, model.py:221-222: a device added without a name is named
\* by its idx
NameArg(kw) == IF "name" \in DOMAIN kw THEN kw.name ELSE kw.idx

\* ModelData.add, model.py:204-228, called with idx, u and p and, optionally,
\* a name
Add(kw) ==
    /\ n < MaxDev
    /\ uid' = UidAfterAdd(uid, kw.idx, n)
    /\ n' = n + 1
    /\ idx_v' = ParamAdd(idx_v, kw.idx)
    /\ u_v' = ParamAdd(u_v, kw.u)
    /\ name_v' = ParamAdd(name_v, NameArg(kw))
    /\ p_v' = ParamAdd(p_v, kw.p)
    /\ added' = Append(added, kw)
    /\ op' = "add"
    /\ found' = NoFind
    /\ got' = NoGet

\* the value list of a parameter, self.__dict__[key].v
ParamV(key) ==
    CASE key = "idx" -> idx_v
      [] key = "u" -> u_v
      [] key = "name" -> name_v
      [] key = "p" -> p_v

\* find_idx, model.py:344: all([i == j for i, j in zip(v_search, v_attr)])
RowMatches(keys, v_search, pos) ==
    \A k \in 1..Len(keys) :
        (k <= Len(v_search)) => PyEq(v_search[k], ParamV(keys[k])[pos])

\* find_idx, model.py:342-346: idx of the first matching position, else None
FirstMatch(keys, v_search) ==
    LET hits == {pos \in 1..Len(idx_v) : RowMatches(keys, v_search, pos)}
    IN IF hits = {} THEN PyNone
       ELSE idx_v[CHOOSE pos \in hits : \A q \in hits : pos <= q]

\* find_idx, model.py:351: the value stored for a query without a match
NotFound == PyFalse

\* zip(*values) yields as many tuples as the shortest of the values has items
ZipLen(values) ==
    IF Len(values) = 0 THEN 0
    ELSE CHOOSE m \in {Len(values[k]) : k \in 1..Len(values)} :
             \A k \in 1..Len(values) : m <= Len(values[k])

\* find_idx, model.py:338-355.  values[k][q] is the value searched for
\* keys[k] in query q; the result is the list idxes, or IndexError.
FindIdx(keys, values, allow_missing) ==
    LET nq == ZipLen(values)
        v_search(q) == [k \in 1..Len(values) |-> values[k][q]]
        v_idx == [q \in 1..nq |-> FirstMatch(keys, v_search(q))]
        missing == {q \in 1..nq : v_idx[q] = PyNone}
    IN IF missing # {} /\ ~allow_missing
       THEN [raised |-> TRUE, out |-> <<>>]
       ELSE [raised |-> FALSE,
             out |-> [q \in 1..nq |-> IF q \in missing THEN NotFound ELSE v_idx[q]]]

\* a find_idx call.  Queries change nothing in the container, so each one is
\* issued on the container as the last add left it.
FindIdxCall(keys, values, allow_missing) ==
    /\ op \in {"none", "add"}
    /\ LET r == FindIdx(keys, values, allow_missing)
       IN found' = [keys |-> keys, values |-> values, allow |-> allow_missing,
                    raised |-> r.raised, out |-> r.out,
                    single |-> FALSE, given |-> values]
    /\ op' = "find_idx"
    /\ got' = NoGet
    /\ UNCHANGED <<n, uid, idx_v, u_v, name_v, p_v, added>>

\* isinstance(v, Iterable): a str is iterable, a number is not
Iterable(v) == v[1] = "str"

\* iterating a str yields its characters, each a str of length one
Iter(v) == [i \in 1..Len(v[2]) |-> PyStr(<<v[2][i]>>)]

\* find_idx, model.py:324-328, keys a str and values a list: the list is
\* wrapped into a tuple only if its first item is not iterable; otherwise
\* zip(*values) at model.py:341 iterates every item of the list
SearchValues(values) ==
    IF Len(values) > 0 /\ ~Iterable(values[1]) THEN <<values>>
    ELSE [k \in 1..Len(values) |-> Iter(values[k])]

\* a find_idx call with a single str key and a list of search values
FindIdxKeyCall(key, values, allow_missing) ==
    /\ op \in {"none", "add"}
    /\ LET vs == SearchValues(values)
           r == FindIdx(<<key>>, vs, allow_missing)
       IN found' = [keys |-> <<key>>, values |-> vs, allow |-> allow_missing,
                    raised |-> r.raised, out |-> r.out,
                    single |-> TRUE, given |-> values]
    /\ op' = "find_idx"
    /\ got' = NoGet
    /\ UNCHANGED <<n, uid, idx_v, u_v, name_v, p_v, added>>

\* Model.idx2uid for a scalar idx, model.py:678-682: None is answered with
\* None, an unknown idx raises KeyError
Idx2uid(idx) ==
    IF idx = PyNone THEN [exc |-> "None", isNone |-> TRUE, pos |-> 0]
    ELSE IF DictKey(idx) \in DOMAIN uid
         THEN [exc |-> "None", isNone |-> FALSE, pos |-> uid[DictKey(idx)]]
         ELSE [exc |-> "KeyError", isNone |-> FALSE, pos |-> 0]

\* Model.get, model.py:712-717, attr = 'v' on the value lists: a list
\* subscripted with None raises TypeError, one subscripted out of range
\* raises IndexError
Get(src, idx) ==
    LET u == Idx2uid(idx)
        v == ParamV(src)
    IN IF u.exc # "None" THEN [exc |-> u.exc, val |-> PyNone]
       ELSE IF u.isNone THEN [exc |-> "TypeError", val |-> PyNone]
       ELSE IF u.pos + 1 > Len(v) THEN [exc |-> "IndexError", val |-> PyNone]
       ELSE [exc |-> "None", val |-> v[u.pos + 1]]

\* a get call, issued on the container as the last add left it
GetCall(src, idx) ==
    /\ op \in {"none", "add"}
    /\ LET r == Get(src, idx)
       IN got' = [src |-> src, idx |-> idx, exc |-> r.exc, val |-> r.val]
    /\ op' = "get"
    /\ found' = NoFind
    /\ UNCHANGED <<n, uid, idx_v, u_v, name_v, p_v, added>>

\* keyword data of one add call
Kwargs == [idx : IdxVals, u : NumVals, p : NumVals]

\* search keys of find_idx: one key, or several keys searched together
KeyLists == {<<"p">>, <<"p", "u">>}

\* the value lists of a find_idx call with the given keys
ValueLists(keys) ==
    UNION {[1..Len(keys) -> [1..nq -> NumVals]] : nq \in 1..MaxQ}

\* the (keys, values) arguments of the find_idx calls explored
FindArgs == UNION {{[keys |-> ks, values |-> vs] : vs \in ValueLists(ks)} : ks \in KeyLists}

\* names supplied to add and searched for
StrVals == {PyStr(<<"a">>), PyStr(<<"a", "b">>)}

\* keyword data of an add call that names the device
NamedKwargs == [idx : {PyInt(0), PyInt(1)}, u : {PyInt(1)}, p : NumVals, name : StrVals]

\* the lists of at most MaxQ search values given with a single key
SearchLists(vals) == UNION {[1..k -> vals] : k \in 0..MaxQ}

NextFind ==
    \/ /\ \E kw \in NamedKwargs : Add(kw)
       /\ UNCHANGED <<pfVars, regVars, numVars>>
    \/ /\ \E vs \in SearchLists(NumVals) : \E allow \in BOOLEAN :
              FindIdxKeyCall("p", vs, allow)
       /\ UNCHANGED <<pfVars, regVars, numVars>>
    \/ /\ \E vs \in SearchLists(StrVals) : \E allow \in BOOLEAN :
              FindIdxKeyCall("name", vs, allow)
       /\ UNCHANGED <<pfVars, regVars, numVars>>
    \/ /\ \E a \in FindArgs : \E allow \in BOOLEAN :
              FindIdxCall(a.keys, a.values, allow)
       /\ UNCHANGED <<pfVars, regVars, numVars>>

NextData ==
    \/ /\ \E kw \in Kwargs : Add(kw)
       /\ UNCHANGED <<pfVars, regVars, numVars>>
    \/ /\ \E a \in FindArgs : \E allow \in BOOLEAN :
              FindIdxCall(a.keys, a.values, allow)
       /\ UNCHANGED <<pfVars, regVars, numVars>>
    \/ /\ \E src \in {"p", "u"} : \E idx \in IdxVals : GetCall(src, idx)
       /\ UNCHANGED <<pfVars, regVars, numVars>>

-----------------------------------------------------------------------------
(* Attribute registry: ModelData.__setattr__, Model.__setattr__.           *)
(* An OrderedDict is a sequence of [key, val] entries in insertion order.  *)

\* od[key] = val: an existing key keeps its position, a new key goes last
ODSet(od, key, val) ==
    IF \E i \in 1..Len(od) : od[i].key = key
    THEN [i \in 1..Len(od) |-> IF od[i].key = key THEN [key |-> key, val |-> val] ELSE od[i]]
    ELSE Append(od, [key |-> key, val |-> val])

ODHas(od, key) == \E i \in 1..Len(od) : od[i].key = key

ODGet(od, key) == od[CHOOSE i \in 1..Len(od) : od[i].key = key].val

ODKeys(od) == [i \in 1..Len(od) |-> od[i].key]

\* OrderedDict(items): the items are inserted one after the other
RECURSIVE ODFromItems(_)
ODFromItems(items) ==
    IF items = <<>> THEN <<>>
    ELSE LET last == items[Len(items)]
         IN ODSet(ODFromItems(SubSeq(items, 1, Len(items) - 1)), last.key, last.val)

\* the classes an object of each kind is an instance of; "Other" is a value
\* that is no parameter, variable, service or discrete component
Bases(kind) ==
    CASE kind = "NumParam"     -> {"BaseParam", "NumParam"}
      [] kind = "IdxParam"     -> {"BaseParam", "IdxParam"}
      [] kind = "DataParam"    -> {"BaseParam", "DataParam"}
      [] kind = "ExtParam"     -> {"BaseParam", "NumParam", "ExtParam"}
      [] kind = "TimerParam"   -> {"BaseParam", "NumParam", "TimerParam"}
      [] kind = "Algeb"        -> {"BaseVar", "Algeb"}
      [] kind = "State"        -> {"BaseVar", "State"}
      [] kind = "ExtAlgeb"     -> {"BaseVar", "ExtAlgeb"}
      [] kind = "ExtState"     -> {"BaseVar", "ExtState"}
      [] kind = "Discrete"     -> {"Discrete"}
      [] kind = "ConstService" -> {"BaseService", "ConstService"}
      [] kind = "ExtService"   -> {"BaseService", "ExtService"}
      [] kind = "BackRef"      -> {"BaseService", "BackRef"}
      [] OTHER                 -> {}

IsInstance(value, class) == class \in Bases(value.kind)

\* attribute names: the three parameters every ModelData has, and two names
\* a model declares
AttrNames == {"idx", "u", "name", "x", "y"}

\* an object: identity, kind, equation string and initializer/value string,
\* a string being given by the symbol it references ("" for None); diag_eps
\* is 0, v_iter is None and v_numeric is not callable unless the declaration
\* says otherwise
Obj(id, kind, e_str, v_str) ==
    [id |-> id, kind |-> kind, e_str |-> e_str, v_str |-> v_str,
     diag_eps |-> 0, v_numeric |-> FALSE, v_iter |-> ""]

\* the object made by a declaration that gives diag_eps and v_numeric
ObjOf(id, d) ==
    [id |-> id, kind |-> d.kind, e_str |-> d.e_str, v_str |-> d.v_str,
     diag_eps |-> d.diag_eps, v_numeric |-> d.v_numeric, v_iter |-> ""]

\* the object made by a declaration that gives v_iter as well
ObjRun(id, d) ==
    [id |-> id, kind |-> d.kind, e_str |-> d.e_str, v_str |-> d.v_str,
     diag_eps |-> d.diag_eps, v_numeric |-> d.v_numeric, v_iter |-> d.v_iter]

NoObj == Obj(0, "None", "", "")

\* ModelData.__init__ (model.py:161-177) followed by Model.__init__
\* (model.py:516-595): idx, u and name are registered, nothing is prepared
InitReg ==
    /\ dict = [k \in AttrNames |->
                 CASE k = "idx"  -> Obj(1, "DataParam", "", "")
                   [] k = "u"    -> Obj(2, "NumParam", "", "")
                   [] k = "name" -> Obj(3, "DataParam", "", "")
                   [] OTHER      -> NoObj]
    /\ params = << [key |-> "idx", val |-> Obj(1, "DataParam", "", "")],
                   [key |-> "u", val |-> Obj(2, "NumParam", "", "")],
                   [key |-> "name", val |-> Obj(3, "DataParam", "", "")] >>
    /\ num_params = << [key |-> "u", val |-> Obj(2, "NumParam", "", "")] >>
    /\ idx_params = <<>>
    /\ timer_params = <<>>
    /\ states = <<>>
    /\ states_ext = <<>>
    /\ algebs = <<>>
    /\ algebs_ext = <<>>
    /\ vars_decl_order = <<>>
    /\ params_ext = <<>>
    /\ discrete = <<>>
    /\ services = <<>>
    /\ services_ref = <<>>
    /\ services_ext = <<>>
    /\ services_ops = <<>>
    /\ nobj = 3
    /\ warned = FALSE
    /\ cache = [filled |-> FALSE, eq_filled |-> FALSE, all_params_names |-> <<>>, all_vars |-> <<>>,
                all_vars_names |-> <<>>, states_and_ext |-> <<>>, algebs_and_ext |-> <<>>]
    /\ tex_sym = FALSE
    /\ inputs_dict = <<>>
    /\ vars_dict = <<>>
    /\ prep = [status |-> "none", owner |-> "", symbol |-> ""]
    /\ calls_jac = <<>>

\* od[key] = value when cond holds, od otherwise
SetIf(cond, od, key, value) == IF cond THEN ODSet(od, key, value) ELSE od

\* Model._register_attribute, model.py:604-626: the first branch of the
\* if/elif chain whose class the value is an instance of
RegisterBranch(value) ==
    IF IsInstance(value, "Algeb") THEN "algebs"
    ELSE IF IsInstance(value, "ExtAlgeb") THEN "algebs_ext"
    ELSE IF IsInstance(value, "State") THEN "states"
    ELSE IF IsInstance(value, "ExtState") THEN "states_ext"
    ELSE IF IsInstance(value, "ExtParam") THEN "params_ext"
    ELSE IF IsInstance(value, "Discrete") THEN "discrete"
    ELSE IF IsInstance(value, "ConstService") THEN "services"
    ELSE IF IsInstance(value, "BackRef") THEN "services_ref"
    ELSE IF IsInstance(value, "ExtService") THEN "services_ext"
    ELSE "none"

\* self.<key> = value on a class deriving from ModelData and Model:
\* ModelData.__setattr__ (model.py:182-202), which ends in
\* Model.__setattr__ (model.py:651-661): _check_attribute,
\* vars_decl_order, _register_attribute, then the attribute itself
SetAttr(key, value) ==
    /\ nobj < 3 + MaxAssign
    /\ nobj' = value.id
    /\ params' = SetIf(IsInstance(value, "BaseParam"), params, key, value)
    /\ num_params' = SetIf(IsInstance(value, "NumParam"), num_params, key, value)
    /\ idx_params' = SetIf(~IsInstance(value, "NumParam") /\ IsInstance(value, "IdxParam"),
                           idx_params, key, value)
    /\ timer_params' = SetIf(IsInstance(value, "TimerParam"), timer_params, key, value)
    /\ warned' = /\ dict[key] # NoObj
                 /\ \E c \in {"BaseParam", "BaseVar", "BaseService", "Discrete"} :
                        IsInstance(value, c)
    /\ vars_decl_order' = SetIf(IsInstance(value, "BaseVar"), vars_decl_order, key, value)
    /\ LET b == RegisterBranch(value)
       IN /\ algebs' = SetIf(b = "algebs", algebs, key, value)
          /\ algebs_ext' = SetIf(b = "algebs_ext", algebs_ext, key, value)
          /\ states' = SetIf(b = "states", states, key, value)
          /\ states_ext' = SetIf(b = "states_ext", states_ext, key, value)
          /\ params_ext' = SetIf(b = "params_ext", params_ext, key, value)
          /\ discrete' = SetIf(b = "discrete", discrete, key, value)
          /\ services' = SetIf(b = "services", services, key, value)
          /\ services_ref' = SetIf(b = "services_ref", services_ref, key, value)
          /\ services_ext' = SetIf(b = "services_ext", services_ext, key, value)
    /\ dict' = [dict EXCEPT ![key] = value]
    /\ prep' = [status |-> "none", owner |-> "", symbol |-> ""]
    /\ UNCHANGED <<services_ops, cache, tex_sym, inputs_dict, vars_dict, calls_jac>>

\* kinds of the objects assigned to the attribute x
KindsX == {"NumParam", "IdxParam", "ExtParam", "TimerParam", "Algeb", "State",
           "ExtAlgeb", "ExtState", "Discrete", "ConstService", "ExtService",
           "BackRef", "Other"}

\* symbols referenced by the equation strings of the attribute y
ExprSyms == {"x", "x_zi", "idx", "dae_t", "zz"}

\* the objects assigned to attributes, before they get their identity:
\* x takes every kind, y is a variable or a service with an expression
Decls ==
    {[key |-> "x", kind |-> k, e_str |-> "", v_str |-> ""] : k \in KindsX}
    \cup {[key |-> "y", kind |-> k, e_str |-> e, v_str |-> ""] :
             k \in {"Algeb", "State", "ExtAlgeb"}, e \in ExprSyms \cup {""}}
    \cup {[key |-> "y", kind |-> k, e_str |-> "", v_str |-> v] :
             k \in {"Algeb", "State", "ExtAlgeb"}, v \in {"x", "zz"}}
    \cup {[key |-> "y", kind |-> "ConstService", e_str |-> "", v_str |-> v] :
             v \in ExprSyms \cup {""}}

-----------------------------------------------------------------------------
(* Symbol generation and expression checks: Model.prepare, SymProcessor    *)

\* the flag names a discrete component exports, Discrete.get_names()
\* (model.py:485-495: zi, zl and zu of a limiter)
FlagNames(key) ==
    CASE key = "x" -> <<"x_zi", "x_zl", "x_zu">>
      [] key = "y" -> <<"y_zi", "y_zl", "y_zu">>
      [] OTHER     -> <<>>

\* instance.get_names(): the flag names of a discrete component, else the
\* name of the instance, which is the key it was first assigned to
GetNames(entry) ==
    IF entry.val.kind = "Discrete" THEN FlagNames(entry.key) ELSE <<entry.key>>

RECURSIVE NamesOf(_)
NamesOf(od) == IF od = <<>> THEN <<>> ELSE GetNames(Head(od)) \o NamesOf(Tail(od))

\* a symbol table that takes every parameter, not only the numeric ones
AllParams_m ==
    ODFromItems(params \o services \o services_ext \o services_ops \o discrete)

\* Model._all_params, model.py:1183-1190
AllParams ==
    ODFromItems(num_params \o services \o services_ext \o services_ops \o discrete)

\* Model._all_vars, model.py:1157-1165
AllVars == ODFromItems(states \o states_ext \o algebs \o algebs_ext)

\* Model._states_and_ext, model.py:1202-1204
StatesAndExt == ODFromItems(states \o states_ext)

\* Model._algebs_and_ext, model.py:1198-1200
AlgebsAndExt == ODFromItems(algebs \o algebs_ext)

\* the option names of the model's config, self.config.as_dict()
\* (model.py:455: a model adding the option pq2z)
ConfigKeys == <<"pq2z">>

Range(seq) == {seq[i] : i \in 1..Len(seq)}

\* d[k] = Symbol(k) for every k of names, on the keys of an OrderedDict
RECURSIVE AddKeys(_, _)
AddKeys(keys, names) ==
    IF names = <<>> THEN keys
    ELSE LET k == Head(names)
         IN AddKeys(IF k \in Range(keys) THEN keys ELSE Append(keys, k), Tail(names))

\* the first of the positions in bad, the position at which a loop over a
\* sequence raises; 0 when there is none
FirstBad(bad) == IF bad = {} THEN 0 ELSE CHOOSE i \in bad : \A j \in bad : i <= j

\* SymProcessor.generate_symbols, model.py:1519-1551.
\* Line 1526 reads the v_iter attribute of self.parent.__dict__[var] and line
\* 1538 the tex_name attribute of self.parent.__dict__[var]: an attribute
\* that holds something else raises AttributeError there.
GenerateSymbols ==
    LET pnames == NamesOf(AllParams)
        vnames == NamesOf(AllVars)
        in1 == AddKeys(inputs_dict, pnames)
        NoVIter(var) == ~IsInstance(dict[var], "BaseVar")
        j == FirstBad({i \in 1..Len(vnames) : NoVIter(vnames[i])})
        upto == IF j = 0 THEN vnames ELSE SubSeq(vnames, 1, j)
        in2 == AddKeys(in1, upto)
        vd2 == AddKeys(vars_dict, upto)
        in3 == AddKeys(in2, ConfigKeys)
        NoTexName(var) == var \in AttrNames /\ dict[var].kind = "Other"
        t == FirstBad({i \in 1..Len(in3) : NoTexName(in3[i])})
    IN IF j # 0 THEN [exc |-> "AttributeError", inputs |-> in2, vars |-> vd2]
       ELSE IF t # 0 THEN [exc |-> "AttributeError", inputs |-> in3, vars |-> vd2]
       ELSE [exc |-> "None", inputs |-> AddKeys(in3, <<"dae_t">>), vars |-> vd2]

\* the e_str of the entries of od that have one
EStrs(od) ==
    LET acc[i \in 0..Len(od)] ==
            IF i = 0 THEN <<>>
            ELSE IF od[i].val.e_str = "" THEN acc[i - 1]
            ELSE Append(acc[i - 1], [owner |-> od[i].key, expr |-> od[i].val.e_str])
    IN acc[Len(od)]

\* the v_str of the entries of od that have one
VStrs(od) ==
    LET acc[i \in 0..Len(od)] ==
            IF i = 0 THEN <<>>
            ELSE IF od[i].val.v_str = "" THEN acc[i - 1]
            ELSE Append(acc[i - 1], [owner |-> od[i].key, expr |-> od[i].val.v_str])
    IN acc[Len(od)]

\* the expressions checked by generate_equations (model.py:1574-1583,
\* 1593-1600), which runs before generate_jacobians
EquationExprs == EStrs(StatesAndExt) \o EStrs(AlgebsAndExt) \o VStrs(services)

\* the expressions handed to _check_expr_symbols, in the order prepare meets
\* them: generate_equations (model.py:1574-1583, 1593-1600), then
\* generate_init (model.py:1452-1467)
CheckedExprs == EStrs(StatesAndExt) \o EStrs(AlgebsAndExt) \o VStrs(services) \o VStrs(AllVars)

\* a derivative that is kept whether it is zero or not
Deriv_m(expr, var) == TRUE

\* generate_jacobians, model.py:1631-1638: the entry of the Jacobian of expr
\* with respect to var that SparseMatrix keeps, which is the structurally
\* nonzero one; an equation without e_str is the constant 0
Deriv(expr, var) == expr # "" /\ expr = var

\* the equation code of a variable class: f for differential, g for algebraic
ECode(kind) == IF kind \in {"State", "ExtState"} THEN "f" ELSE "g"

\* the variable code of a variable class: x for states, y for algebraics
VCode(kind) == IF kind \in {"State", "ExtState"} THEN "x" ELSE "y"

\* generate_jacobians, model.py:1659: f'{eqn.e_code}{var.v_code}'
JName(e_code, v_code) ==
    CASE e_code = "f" /\ v_code = "x" -> "fx"
      [] e_code = "f" /\ v_code = "y" -> "fy"
      [] e_code = "g" /\ v_code = "x" -> "gx"
      [] e_code = "g" /\ v_code = "y" -> "gy"

\* position of key in a list of names, list.index(key), counted from 0
IndexOf(names, key) == (CHOOSE i \in 1..Len(names) : names[i] = key) - 1

\* generate_jacobians, model.py:1646-1660: eq_sparse.row_list() of the
\* Jacobian of the equations of od (src 0: states_and_ext, src 1:
\* algebs_and_ext) with respect to vnames, in row-major order; every entry
\* is filed under the codes of cache.all_vars[eq_name] and [var_name]
RowList(src, od, vnames) ==
    LET nc == Len(vnames)
        acc[k \in 0..(Len(od) * nc)] ==
            IF k = 0 THEN <<>>
            ELSE LET e_idx == (k - 1) \div nc
                     v_idx == (k - 1) % nc
                     eq_name == od[e_idx + 1].key
                     var_name == vnames[v_idx + 1]
                 IN IF Deriv(od[e_idx + 1].val.e_str, var_name)
                    THEN Append(acc[k - 1],
                                [jname |-> JName(ECode(ODGet(AllVars, eq_name).kind),
                                                 VCode(ODGet(AllVars, var_name).kind)),
                                 row |-> e_idx, col |-> v_idx, src |-> src,
                                 eq |-> eq_name, var |-> var_name])
                    ELSE acc[k - 1]
    IN acc[Len(od) * nc]

\* generate_jacobians, model.py:1665-1670: the diag_eps of the algebraic
\* variables, appended to gyc
DiagEps(vnames) ==
    LET acc[i \in 0..Len(algebs)] ==
            IF i = 0 THEN <<>>
            ELSE IF algebs[i].val.diag_eps = 0 THEN acc[i - 1]
            ELSE Append(acc[i - 1],
                        [jname |-> "gyc",
                         row |-> IndexOf(ODKeys(AlgebsAndExt), algebs[i].key),
                         col |-> IndexOf(vnames, algebs[i].key), src |-> 2,
                         eq |-> algebs[i].key, var |-> algebs[i].key])
    IN acc[Len(algebs)]

\* SymProcessor.generate_jacobians, model.py:1608-1670: the lists are cleared,
\* then filled from df_sparse, from dg_sparse and from the diag_eps values
GenerateJacobians(vnames) ==
    RowList(0, StatesAndExt, vnames) \o RowList(1, AlgebsAndExt, vnames) \o DiagEps(vnames)

\* SymProcessor._check_expr_symbols, model.py:1553-1559: a free symbol that
\* is no value of inputs_dict
UnknownSymbol(expr, inputs) == expr \notin Range(inputs)

\* Model.prepare, model.py:1367-1377.  generate_symbols first turns the
\* values of tex_names into Symbols (model.py:1512-1513); on a later call
\* these values are Symbols already and Symbol() raises TypeError.
Prepare ==
    IF tex_sym
    THEN /\ prep' = [status |-> "TypeError", owner |-> "", symbol |-> ""]
         /\ UNCHANGED <<collVars, nobj, warned, cache, tex_sym, inputs_dict, vars_dict,
                        calls_jac>>
    ELSE LET g == GenerateSymbols
             IsUnknown(c) == UnknownSymbol(c.expr, g.inputs)
             b == FirstBad({i \in 1..Len(CheckedExprs) : IsUnknown(CheckedExprs[i])})
         IN /\ tex_sym' = TRUE
            /\ inputs_dict' = g.inputs
            /\ vars_dict' = g.vars
            /\ cache' = [filled |-> TRUE,
                         eq_filled |-> (g.exc = "None"),
                         all_params_names |-> NamesOf(AllParams),
                         all_vars |-> AllVars,
                         all_vars_names |-> NamesOf(AllVars),
                         states_and_ext |-> IF g.exc = "None" THEN StatesAndExt ELSE <<>>,
                         algebs_and_ext |-> IF g.exc = "None" THEN AlgebsAndExt ELSE <<>>]
            /\ prep' = IF g.exc # "None"
                       THEN [status |-> g.exc, owner |-> "", symbol |-> ""]
                       ELSE IF b # 0
                       THEN [status |-> "ValueError", owner |-> CheckedExprs[b].owner,
                             symbol |-> CheckedExprs[b].expr]
                       ELSE [status |-> "ok", owner |-> "", symbol |-> ""]
            /\ calls_jac' = IF g.exc = "None" /\ (b = 0 \/ b > Len(EquationExprs))
                            THEN GenerateJacobians(g.vars)
                            ELSE calls_jac
            /\ UNCHANGED <<collVars, nobj, warned>>

NextReg ==
    \/ /\ \E d \in Decls : SetAttr(d.key, Obj(nobj + 1, d.kind, d.e_str, d.v_str))
       /\ UNCHANGED <<pfVars, dataVars, numVars>>
    \/ /\ Prepare
       /\ UNCHANGED <<pfVars, dataVars, numVars>>

-----------------------------------------------------------------------------
(* Sparsity pattern: Model.store_sparse_pattern, Model.set_in_use,         *)
(* Model.a_reset                                                           *)

\* identities of the objects a model can hold
ObjIds == 1..(3 + MaxAssign)

NoInit == [status |-> "none", stages |-> <<>>, evals |-> <<>>, marked |-> FALSE]

\* Model.__init__, model.py:549-594: in_use is True, no address is
\* assigned, the triplet store and the input map are empty, the model is
\* not initialized and needs no iterative initialization
InitNum ==
    /\ in_use = TRUE
    /\ address = FALSE
    /\ ext_len = 0
    /\ triplets = <<>>
    /\ ssp = [status |-> "none", at |-> 0, again |-> FALSE]
    /\ initialized = FALSE
    /\ nr_iter = FALSE
    /\ listed = FALSE
    /\ v_id = [o \in ObjIds |-> 0]
    /\ v_val = [o \in ObjIds |-> "pre"]
    /\ input = <<>>
    /\ narr = 3 + MaxAssign
    /\ ncall = 0
    /\ ini = NoInit
    /\ sup = <<>>
    /\ j_num = FALSE
    /\ blocks = <<>>
    /\ e_src = [o \in ObjIds |-> ""]
    /\ v_shape = [o \in ObjIds |-> "list"]

\* the Jacobian names in the order store_sparse_pattern walks them
\* (model.py:374-378, 979-981: every jname of fx, fy, gx, gy with the types
\* c and '')
jac_full_names == <<"fxc", "fx", "fyc", "fy", "gxc", "gx", "gyc", "gy">>

\* calls.zip_ijv(j_full_name), model.py:392-398: the compiled triplets of one
\* Jacobian name, in append order
ZipIjv(j_full_name) ==
    LET Is(t) == t.jname = j_full_name
    IN SelectSeq(calls_jac, Is)

\* the compiled triplets in the order store_sparse_pattern meets them
RECURSIVE StoreOrder(_)
StoreOrder(i) ==
    IF i > Len(jac_full_names) THEN <<>>
    ELSE ZipIjv(jac_full_names[i]) \o StoreOrder(i + 1)

\* length of the address array .a of a variable: one address per device for
\* an internal variable, as many as the indexer resolved for an external one
ALen(obj) == IF obj.kind \in {"ExtAlgeb", "ExtState"} THEN ext_len ELSE n

\* store_sparse_pattern, model.py:975-977: the equation names of a block are
\* a slice of the names of cache.all_vars, cut at len(cache.states_and_ext)
EqNames(j_full_name) ==
    LET names == ODKeys(cache.all_vars)
        ns == Len(cache.states_and_ext)
        cut == IF ns > Len(names) THEN Len(names) ELSE ns
    IN IF j_full_name \in {"fxc", "fx", "fyc", "fy"}
       THEN SubSeq(names, 1, cut)
       ELSE SubSeq(names, cut + 1, Len(names))

\* a length test that lets every pair of address arrays through
SameLength_m(row_obj, col_obj) == TRUE

\* store_sparse_pattern, model.py:989: len(row_idx) != len(col_idx) raises
SameLength(row_obj, col_obj) == ALen(row_obj) = ALen(col_obj)

\* store_sparse_pattern, model.py:983-992: what one compiled triplet raises
StoreExc(t) ==
    LET names == ODKeys(cache.all_vars)
        eqs == EqNames(t.jname)
    IN IF t.row + 1 > Len(eqs) \/ t.col + 1 > Len(names) THEN "IndexError"
       ELSE IF \E o \in {dict[eqs[t.row + 1]], dict[names[t.col + 1]]} :
                   ~IsInstance(o, "BaseVar")
       THEN "AttributeError"
       ELSE IF ~SameLength(dict[eqs[t.row + 1]], dict[names[t.col + 1]]) THEN "ValueError"
       ELSE "None"

\* what the value list vjac of a store holds at one position: a constant
\* array, an array of zeros, what a user-defined j_numeric appended, or the
\* result of the compiled derivative of the equation eq by the variable var
Value(kind, eq, var) == [kind |-> kind, eq |-> eq, var |-> var]

\* one entry appended by a user-defined j_numeric: the rows and columns are
\* address arrays the code of the owner (the model or a block) supplies
OwnEntry(jname, owner, by) ==
    [jname |-> jname, row_name |-> owner, col_name |-> owner, eq |-> owner,
     var |-> owner, by |-> by, val |-> Value("user", owner, owner)]

\* store_sparse_pattern, model.py:966-967: the entries the j_numeric of the
\* model appends to its store when flags['j_num'] is set (model.py:1352-1359)
UserEntries == IF j_num THEN <<OwnEntry("gy", "usr", "user")>> ELSE <<>>

\* store_sparse_pattern, model.py:970-973: the entries merged from the
\* stores of the blocks whose flags['j_num'] is set, in the order of blocks
RECURSIVE BlockEntries(_)
BlockEntries(i) ==
    IF i > Len(blocks) THEN <<>>
    ELSE (IF blocks[i].j_num THEN <<OwnEntry("gy", "blk", "block")>> ELSE <<>>)
         \o BlockEntries(i + 1)

\* a store that takes the user-defined entries after the generated ones
StoreParts_m(user, blk, generated) == generated \o user \o blk

\* store_sparse_pattern, model.py:966-998: the user-defined entries of the
\* model are appended first, those of the blocks are merged next, and the
\* loop over the compiled triplets appends the generated entries last
StoreParts(user, blk, generated) == user \o blk \o generated

\* store_sparse_pattern, model.py:981-998: the loop over the compiled
\* triplets; it appends one entry per triplet until one raises
StorePattern ==
    LET ts == StoreOrder(1)
        names == ODKeys(cache.all_vars)
        b == FirstBad({i \in 1..Len(ts) : StoreExc(ts[i]) # "None"})
        upto == IF b = 0 THEN Len(ts) ELSE b - 1
    IN [exc |-> IF b = 0 THEN "None" ELSE StoreExc(ts[b]),
        at  |-> b,
        out |-> [i \in 1..upto |->
                    [jname |-> ts[i].jname,
                     row_name |-> EqNames(ts[i].jname)[ts[i].row + 1],
                     col_name |-> names[ts[i].col + 1],
                     eq |-> ts[i].eq, var |-> ts[i].var,
                     by |-> "generated",
                     val |-> IF ts[i].jname \in {"fxc", "fyc", "gxc", "gyc"}
                             THEN Value("const", "", "") ELSE Value("zeros", "", "")]]]

\* a store that keeps the entries of the previous call
ClearIjv_m(trip) == trip

\* store_sparse_pattern, model.py:958: self.triplets.clear_ijv() empties
\* the lists of every Jacobian name
ClearIjv(trip) == <<>>

\* a store that skips a model that is not in use
Skipped_m == n = 0 \/ ~address \/ ~in_use

\* store_sparse_pattern, model.py:959-963: nothing is stored for a model
\* without devices or without addresses; in_use is not looked at
Skipped == n = 0 \/ ~address

\* Model.store_sparse_pattern, model.py:939-998, on a model whose equations
\* have been generated
StoreSparsePattern ==
    /\ cache.eq_filled
    /\ IF Skipped
       THEN /\ triplets' = ClearIjv(triplets)
            /\ ssp' = [status |-> "skipped", at |-> 0, again |-> ssp.status # "none"]
       ELSE LET r == StorePattern
            IN /\ triplets' = ClearIjv(triplets)
                               \o StoreParts(UserEntries, BlockEntries(1), r.out)
               /\ ssp' = [status |-> IF r.exc = "None" THEN "ok" ELSE r.exc, at |-> r.at,
                          again |-> ssp.status # "none"]
    /\ UNCHANGED <<in_use, address, ext_len, runVars>>
    /\ UNCHANGED updVars

\* Model.set_in_use, model.py:1278-1291: True in the base class; a model with
\* back references overloads it and sets False when nothing refers to it
SetInUse(b) ==
    /\ in_use' = b
    /\ ssp' = [status |-> "none", at |-> 0, again |-> FALSE]
    /\ UNCHANGED <<address, ext_len, triplets, runVars>>
    /\ UNCHANGED updVars

\* the array allocated for the variable o when its address is assigned: a
\* negative identity, which differs from the one allocated before the last
\* init() or s_update() call
VarArray(o) == 0 - (ncall * (3 + MaxAssign) + o)

\* the system assigns the addresses of the variables, allocates their value
\* arrays and sets flags['address']; the address array of an external
\* variable has the length len
SetAddress(len) ==
    /\ ~address
    /\ address' = TRUE
    /\ ext_len' = len
    /\ ssp' = [status |-> "none", at |-> 0, again |-> FALSE]
    /\ v_id' = [o \in ObjIds |->
                  IF \E i \in 1..Len(AllVars) : AllVars[i].val.id = o
                  THEN VarArray(o) ELSE v_id[o]]
    /\ UNCHANGED <<in_use, triplets, initialized, nr_iter, listed, v_val, input,
                   narr, ncall, ini, sup>>
    /\ UNCHANGED updVars

\* Model.a_reset, model.py:1310-1317: var.reset() empties the address and
\* value arrays of every variable of cache.all_vars
AReset ==
    /\ address
    /\ address' = FALSE
    /\ ext_len' = 0
    /\ ssp' = [status |-> "none", at |-> 0, again |-> FALSE]
    /\ initialized' = FALSE
    /\ v_id' = [o \in ObjIds |->
                  IF \E i \in 1..Len(cache.all_vars) : cache.all_vars[i].val.id = o
                  THEN 0 ELSE v_id[o]]
    /\ UNCHANGED <<in_use, triplets, nr_iter, listed, v_val, input, narr,
                   ncall, ini, sup>>
    /\ UNCHANGED updVars

\* the device added to a model before its addresses are assigned
FirstDevice == [idx |-> PyInt(1), u |-> PyInt(1), p |-> PyInt(0)]

\* declarations of a model with equations: Algeb with and without diag_eps,
\* State, ExtAlgeb and ExtState under the names x and y
DeclsJ ==
    {[key |-> k, kind |-> "Algeb", e_str |-> e, v_str |-> "", diag_eps |-> 0,
      v_numeric |-> FALSE] : k \in {"x", "y"}, e \in {"", "x", "y"}}
    \cup {[key |-> k, kind |-> "Algeb", e_str |-> e, v_str |-> "", diag_eps |-> 1,
           v_numeric |-> FALSE] : k \in {"x", "y"}, e \in {"", "x"}}
    \cup {[key |-> k, kind |-> "State", e_str |-> e, v_str |-> "", diag_eps |-> 0,
           v_numeric |-> FALSE] : k \in {"x", "y"}, e \in {"", "x", "y"}}
    \cup {[key |-> k, kind |-> "ExtAlgeb", e_str |-> e, v_str |-> "", diag_eps |-> 0,
           v_numeric |-> FALSE] : k \in {"x", "y"}, e \in {"x"}}
    \cup {[key |-> k, kind |-> "ExtState", e_str |-> e, v_str |-> "", diag_eps |-> 0,
           v_numeric |-> FALSE] : k \in {"x", "y"}, e \in {"y"}}

\* the attributes are assigned in the constructor of the model, x first,
\* before the model is prepared; on the prepared model devices are added and
\* the in_use mark is set, then the addresses are assigned
NextJac ==
    \/ /\ ~tex_sym
       /\ \E d \in DeclsJ : /\ d.key = "y" => dict["x"] # NoObj
                            /\ SetAttr(d.key, ObjOf(nobj + 1, d))
       /\ UNCHANGED <<pfVars, dataVars, numVars>>
    \/ /\ Prepare
       /\ UNCHANGED <<pfVars, dataVars, numVars>>
    \/ /\ tex_sym /\ n = 0 /\ ~address /\ Add(FirstDevice)
       /\ UNCHANGED <<pfVars, regVars, numVars>>
    \/ /\ tex_sym /\ ~address /\ \E b \in BOOLEAN : SetInUse(b)
       /\ UNCHANGED <<pfVars, dataVars, regVars>>
    \/ /\ tex_sym
       /\ \E len \in {n, n + 1} : /\ len # n => states_ext \o algebs_ext # <<>>
                                  /\ SetAddress(len)
       /\ UNCHANGED <<pfVars, dataVars, regVars>>
    \/ /\ AReset
       /\ UNCHANGED <<pfVars, dataVars, regVars>>
    \/ /\ StoreSparsePattern
       /\ UNCHANGED <<pfVars, dataVars, regVars>>

-----------------------------------------------------------------------------
(* Numerical life cycle: Model.list2array, get_inputs, s_update, init,     *)
(* init_iter, f_update, g_update, j_update, alter.                         *)
(* An array is known by its identity; v_id maps an object to the identity  *)
(* of the array bound to its attribute v.                                  *)

\* the (name, array) pairs one loop of refresh_inputs files for od
Filed(od, vid) == [i \in 1..Len(od) |-> [key |-> od[i].key, val |-> vid[od[i].val.id]]]

\* names that stand for values that are no tracked array: the flags of the
\* discrete components and the config options
Untracked(names) == [i \in 1..Len(names) |-> [key |-> names[i], val |-> 0]]

\* od[key] = val for every item, in order
RECURSIVE SetAll(_, _)
SetAll(od, items) ==
    IF items = <<>> THEN od
    ELSE SetAll(ODSet(od, Head(items).key, Head(items).val), Tail(items))

\* Model.refresh_inputs, model.py:780-817
RefreshInputs(inp, vid) ==
    SetAll(inp, Filed(num_params, vid) \o Filed(services, vid) \o Filed(services_ext, vid)
                \o Filed(services_ops, vid) \o Untracked(NamesOf(discrete))
                \o Filed(cache.all_vars, vid) \o Untracked(ConfigKeys))

\* Model.get_inputs, model.py:753-778
GetInputs(inp, vid, refresh) ==
    ODSet(IF Len(inp) = 0 \/ refresh THEN RefreshInputs(inp, vid) ELSE inp, "dae_t", 0)

\* the array an expression reads: the one filed under the symbol it references
ReadOf(inp, sym) == IF ODHas(inp, sym) THEN ODGet(inp, sym) ELSE 0

\* the inputs s_update hands to a compiled service function
ServiceInputs_m(inp, vid) == GetInputs(inp, vid, FALSE)

\* model.py:871: kwargs = self.get_inputs(refresh=True)
ServiceInputs(inp, vid) == GetInputs(inp, vid, TRUE)

\* a first loop that leaves the service without expression as it is
ConstValue_m(val, id) == val

\* model.py:875-878 with func = 0 (model.py:1602-1603): the service without
\* expression is bound to 0 * ones(n)
ConstValue(val, id) == [val EXCEPT ![id] = "zeros"]

\* a first loop that keeps what the compiled function returned
Broadcast_m(shp) == shp

\* model.py:877-878: a value that is no ndarray is multiplied by ones(n)
Broadcast(shp) == "array"

\* one turn of the first loop of s_update, model.py:868-878, for the i-th
\* service: it gets a new array, the value of its compiled function
\* (model.py:873) or the constant 0 times ones(n) (model.py:875-878); shp is
\* what the compiled function returns, an array or a scalar
ExprStep(st, i, shp) ==
    LET name == services[i].key
        instance == services[i].val
        fresh == st.narr + 1
    IN IF instance.v_str # ""
       THEN CHOOSE r \in {[vid |-> [st.vid EXCEPT ![instance.id] = fresh],
                           inp |-> kwargs,
                           narr |-> fresh,
                           val |-> [st.val EXCEPT ![instance.id] = "expr"],
                           shape |-> [st.shape EXCEPT ![instance.id] = Broadcast(shp)],
                           log |-> Append(st.log, [name |-> name, phase |-> "expr",
                                                   read |-> ReadOf(kwargs, instance.v_str),
                                                   wrote |-> fresh, returned |-> shp])] :
                          kwargs \in {ServiceInputs(st.inp, st.vid)}} : TRUE
       ELSE [vid |-> [st.vid EXCEPT ![instance.id] = fresh],
             inp |-> st.inp,
             narr |-> fresh,
             val |-> ConstValue(st.val, instance.id),
             shape |-> [st.shape EXCEPT ![instance.id] = Broadcast("scalar")],
             log |-> Append(st.log, [name |-> name, phase |-> "const",
                                     read |-> 0, wrote |-> fresh, returned |-> "scalar"])]

\* one turn of the second loop of s_update, model.py:885-889: a callable
\* v_numeric gives the i-th service what it returns, an array or a scalar
NumericStep(st, i, shp) ==
    LET name == services[i].key
        instance == services[i].val
        fresh == st.narr + 1
    IN IF instance.v_numeric
       THEN [vid |-> [st.vid EXCEPT ![instance.id] = fresh],
             inp |-> GetInputs(st.inp, st.vid, TRUE),
             narr |-> fresh,
             val |-> [st.val EXCEPT ![instance.id] = "numeric"],
             shape |-> [st.shape EXCEPT ![instance.id] = shp],
             log |-> Append(st.log, [name |-> name, phase |-> "numeric",
                                     read |-> 0, wrote |-> fresh, returned |-> shp])]
       ELSE st

\* the state s_update starts from
BeforeServices ==
    [vid |-> v_id, inp |-> input, narr |-> narr, val |-> v_val, shape |-> v_shape,
     log |-> <<>>]

\* the two loops of s_update one after the other: turn k of 2 * Len(services);
\* rets[i] is what the functions of the i-th service return
RECURSIVE ServicePasses(_, _)
ServicePasses(k, rets) ==
    IF k = 0 THEN BeforeServices
    ELSE CHOOSE r \in {IF k <= Len(services) THEN ExprStep(st, k, rets[k])
                       ELSE NumericStep(st, k - Len(services), rets[k - Len(services)]) :
                          st \in {ServicePasses(k - 1, rets)}} : TRUE

\* Model.s_update, model.py:858-897
SUpdateResult(rets) ==
    IF n = 0 \/ ~in_use
    THEN BeforeServices
    ELSE CHOOSE r \in {[st EXCEPT !.inp = GetInputs(st.inp, st.vid, TRUE)] :
                          st \in {ServicePasses(2 * Len(services), rets)}} : TRUE

\* what the functions of the services can return
Rets == [1..Len(services) -> {"array", "scalar"}]

\* every function of a service returns an array
ArrayRets == [i \in 1..Len(services) |-> "array"]

SUpdate(rets) ==
    /\ ncall < MaxCalls
    /\ ncall' = ncall + 1
    /\ \E r \in {SUpdateResult(rets)} :
          /\ v_id' = r.vid
          /\ input' = r.inp
          /\ narr' = r.narr
          /\ v_val' = r.val
          /\ v_shape' = r.shape
          /\ sup' = r.log
    /\ UNCHANGED <<in_use, address, ext_len, triplets, ssp, initialized, nr_iter,
                   listed, ini>>
    /\ UNCHANGED <<j_num, blocks, e_src>>

\* Model.list2array, model.py:1293-1308: the values of the numeric
\* parameters and of the services become arrays
List2Array ==
    /\ ~listed
    /\ listed' = TRUE
    /\ LET objs == Filed(num_params, [o \in ObjIds |-> o])
                   \o Filed(services, [o \in ObjIds |-> o])
                   \o Filed(services_ext, [o \in ObjIds |-> o])
       IN /\ v_id' = [o \in ObjIds |->
                        IF \E i \in 1..Len(objs) : objs[i].val = o THEN o ELSE v_id[o]]
          /\ v_shape' = [o \in ObjIds |->
                           IF \E i \in 1..Len(objs) : objs[i].val = o
                           THEN "array" ELSE v_shape[o]]
    /\ UNCHANGED <<in_use, address, ext_len, triplets, ssp, initialized, nr_iter,
                   v_val, input, narr, ncall, ini, sup>>
    /\ UNCHANGED <<j_num, blocks, e_src>>

\* a subclass sets flags['nr_iter'] in its constructor (model.py:555)
SetNrIter(b) ==
    /\ nr_iter' = b
    /\ UNCHANGED <<in_use, address, ext_len, triplets, ssp, initialized, listed,
                   v_id, v_val, input, narr, ncall, ini, sup>>
    /\ UNCHANGED updVars

\* what the evaluation of one initializer can do: give a value, give nan or
\* inf without raising (numpy arithmetic), raise ValueError, or raise another
\* exception (division of a config scalar by zero)
InitOutcomes == {"ok", "nan", "ValueError", "ZeroDivisionError"}

\* model.py:1023: except ValueError
Caught(exc) == exc = "ValueError"

Raises(out) == out \notin {"ok", "nan"} /\ ~Caught(out)

\* Model._iter_vars, model.py:1167-1175
IterVars == SelectSeq(cache.all_vars, LAMBDA e : e.val.v_iter # "")

\* the sequential pass of init, model.py:1014-1026, over the variables in
\* declaration order; outs[i] is what the initializer of the i-th does
InitPass(outs, val) ==
    LET od == vars_decl_order
        HasV(i) == od[i].val.v_str # ""
        stop == FirstBad({i \in 1..Len(od) : HasV(i) /\ Raises(outs[i])})
        Done(i) == HasV(i) /\ (stop = 0 \/ i <= stop)
        After(i) == IF outs[i] = "ok" THEN "init"
                    ELSE IF outs[i] = "nan" THEN "nan"
                    ELSE val[od[i].val.id]
        ev[i \in 0..Len(od)] ==
            IF i = 0 THEN <<>>
            ELSE IF Done(i)
            THEN Append(ev[i - 1], [name |-> od[i].key, out |-> outs[i],
                                    before |-> val[od[i].val.id], after |-> After(i)])
            ELSE ev[i - 1]
    IN [exc |-> IF stop = 0 THEN "None" ELSE outs[stop],
        evals |-> ev[Len(od)],
        val |-> [o \in ObjIds |->
                   IF \E i \in 1..Len(od) : Done(i) /\ od[i].val.id = o
                   THEN After(CHOOSE i \in 1..Len(od) : Done(i) /\ od[i].val.id = o)
                   ELSE val[o]]]

\* the in-place writes of init_iter, model.py:936-937
IterWrites(val) ==
    [o \in ObjIds |-> IF \E i \in 1..Len(IterVars) : IterVars[i].val.id = o
                      THEN "sol" ELSE val[o]]

\* a flag that is set whatever the stages did
MarkInitialized_m(flag, exc) == TRUE

\* model.py:1038 is reached only when no statement before it raised
MarkInitialized(flag, exc) == IF exc = "None" THEN TRUE ELSE flag

\* Model.init, model.py:1000-1038: s_update, the sequential pass, init_iter
\* when flags['nr_iter'], the custom v_numeric, then the flag.  iter_out is
\* what newton_krylov does and hook_out what an overriding v_numeric does.
Init(outs, iter_out, hook_out) ==
    /\ ncall < MaxCalls
    /\ ncall' = ncall + 1
    /\ \E su \in {SUpdateResult(ArrayRets)} : \E sq \in {InitPass(outs, su.val)} :
       LET s1 == <<"s_update", "sequential">>
           it == sq.exc = "None" /\ nr_iter
           s2 == IF it THEN Append(s1, "init_iter") ELSE s1
           e2 == IF it /\ iter_out # "ok" THEN iter_out ELSE sq.exc
           val2 == IF it /\ iter_out = "ok" THEN IterWrites(sq.val) ELSE sq.val
           s3 == IF e2 = "None" THEN Append(s2, "v_numeric") ELSE s2
           e3 == IF e2 = "None" /\ hook_out # "ok" THEN hook_out ELSE e2
       IN /\ v_id' = su.vid
          /\ narr' = su.narr
          /\ sup' = su.log
          /\ v_shape' = su.shape
          /\ input' = GetInputs(su.inp, su.vid, TRUE)
          /\ v_val' = val2
          /\ initialized' = MarkInitialized(initialized, e3)
          /\ ini' = [status |-> IF e3 = "None" THEN "ok" ELSE e3,
                     stages |-> s3,
                     evals |-> sq.evals,
                     marked |-> MarkInitialized(initialized, e3)]
    /\ UNCHANGED <<in_use, address, ext_len, triplets, ssp, nr_iter, listed>>
    /\ UNCHANGED <<j_num, blocks, e_src>>

\* Model.init_iter called on its own, model.py:909-937
InitIter ==
    /\ input' = GetInputs(input, v_id, TRUE)
    /\ v_val' = IterWrites(v_val)
    /\ UNCHANGED <<in_use, address, ext_len, triplets, ssp, initialized, nr_iter,
                   listed, v_id, narr, ncall, ini, sup>>
    /\ UNCHANGED updVars

\* generate_equations, model.py:1573-1582: the compiled residuals of one
\* group of variables; a variable without equation string gets no entry
Lambdified(od) == SelectSeq(od, LAMBDA e : e.val.e_str # "")

\* model.py:1061 and 1087: zip(variables.values(), functions.values()) pairs
\* the k-th variable with the k-th function; written[o] is the name of the
\* variable whose residual goes into the array e of the object o
ZipWrites(od, funcs, written) ==
    LET len == IF Len(od) < Len(funcs) THEN Len(od) ELSE Len(funcs)
    IN [o \in ObjIds |->
          IF \E k \in 1..len : od[k].val.id = o
          THEN funcs[CHOOSE k \in 1..len : od[k].val.id = o].key
          ELSE written[o]]

\* Model.f_update, model.py:1050-1075: the inputs are read without refresh,
\* the results go to the equation arrays e
FUpdate ==
    /\ input' = GetInputs(input, v_id, FALSE)
    /\ e_src' = ZipWrites(cache.states_and_ext, Lambdified(cache.states_and_ext), e_src)
    /\ UNCHANGED <<in_use, address, ext_len, triplets, ssp, initialized, nr_iter,
                   listed, v_id, v_val, narr, ncall, ini, sup>>
    /\ UNCHANGED <<j_num, blocks, v_shape>>

\* Model.g_update, model.py:1077-1098
GUpdate ==
    /\ input' = GetInputs(input, v_id, FALSE)
    /\ e_src' = ZipWrites(cache.algebs_and_ext, Lambdified(cache.algebs_and_ext), e_src)
    /\ UNCHANGED <<in_use, address, ext_len, triplets, ssp, initialized, nr_iter,
                   listed, v_id, v_val, narr, ncall, ini, sup>>
    /\ UNCHANGED <<j_num, blocks, v_shape>>

\* model.py:1110: the Jacobians whose values j_update computes
jac_set == <<"fx", "fy", "gx", "gy">>

\* the positions of the store that belong to one Jacobian name, in order
StorePos(trip, name) ==
    SelectSeq([i \in 1..Len(trip) |-> i], LAMBDA i : trip[i].jname = name)

\* j_update, model.py:1111-1113: triplets.vjac[name][idx] = fun(**kwargs)
\* for every compiled function of the names of jac_set, in order; an idx
\* beyond the end of the list of the store raises IndexError
JWrites(trip) ==
    LET Short(k) == Len(ZipIjv(jac_set[k])) > Len(StorePos(trip, jac_set[k]))
        bad == FirstBad({k \in 1..Len(jac_set) : Short(k)})
        Reached(name) == \E k \in 1..Len(jac_set) :
                             jac_set[k] = name /\ (bad = 0 \/ k <= bad)
        Rank(i) == CHOOSE k \in 1..Len(trip) : StorePos(trip, trip[i].jname)[k] = i
    IN [exc |-> IF bad = 0 THEN "None" ELSE "IndexError",
        out |-> [i \in 1..Len(trip) |->
                    IF Reached(trip[i].jname) /\ Rank(i) <= Len(ZipIjv(trip[i].jname))
                    THEN [trip[i] EXCEPT !.val =
                            Value("fun", ZipIjv(trip[i].jname)[Rank(i)].eq,
                                  ZipIjv(trip[i].jname)[Rank(i)].var)]
                    ELSE trip[i]]]

\* Model.j_update, model.py:1100-1113: the results go to triplets.vjac; an
\* IndexError leaves j_update with the values written so far
JUpdate ==
    /\ input' = GetInputs(input, v_id, FALSE)
    /\ \E r \in {JWrites(triplets)} : triplets' = r.out
    /\ UNCHANGED <<in_use, address, ext_len, ssp, initialized, nr_iter,
                   listed, v_id, v_val, narr, ncall, ini, sup>>
    /\ UNCHANGED <<j_num, blocks, e_src, v_shape>>

\* a subclass sets flags['j_num'] in its constructor (model.py:558)
SetJNum(b) ==
    /\ j_num' = b
    /\ UNCHANGED <<in_use, address, ext_len, triplets, ssp, runVars>>
    /\ UNCHANGED <<blocks, e_src, v_shape>>

\* Model._register_attribute, model.py:627-628: a Block assigned to an
\* attribute is filed in blocks; jn is its flags['j_num']
AddBlock(jn) ==
    /\ Len(blocks) < MaxBlocks
    /\ blocks' = Append(blocks, [j_num |-> jn])
    /\ UNCHANGED <<in_use, address, ext_len, triplets, ssp, runVars>>
    /\ UNCHANGED <<j_num, e_src, v_shape>>

\* an assignment that binds a new array to the attribute v
AlterArray_m(vid, id, fresh) == [vid EXCEPT ![id] = fresh]

\* model.py:751: self.__dict__[src].v[:] = ... writes into the array
AlterArray(vid, id, fresh) == vid

\* Model.alter, model.py:744-751, on the parameter src of the first device
Alter(src) ==
    /\ n > 0
    /\ IsInstance(dict[src], "NumParam")
    /\ v_id' = AlterArray(v_id, dict[src].id, narr + 1)
    /\ narr' = IF v_id' = v_id THEN narr ELSE narr + 1
    /\ v_val' = [v_val EXCEPT ![dict[src].id] = "alt"]
    /\ UNCHANGED <<in_use, address, ext_len, triplets, ssp, initialized, nr_iter,
                   listed, input, ncall, ini, sup>>
    /\ UNCHANGED updVars

\* the other of the two names a model declares
Other(k) == IF k = "x" THEN "y" ELSE "x"

\* declarations of a model that is initialized: variables with and without
\* an initializer, one of them initialized iteratively, and services given
\* by an expression, by nothing, or by custom numeric code; an expression
\* references the parameter u or the other declared name
DeclsRun ==
    {[key |-> k, kind |-> "Algeb", e_str |-> "", v_str |-> v, diag_eps |-> 0,
      v_numeric |-> FALSE, v_iter |-> ""] : k \in {"x", "y"}, v \in {"", "u", "x", "y"}}
    \cup {[key |-> k, kind |-> "State", e_str |-> "", v_str |-> "", diag_eps |-> 0,
           v_numeric |-> FALSE, v_iter |-> "u"] : k \in {"x", "y"}}
    \cup {[key |-> k, kind |-> "ConstService", e_str |-> "", v_str |-> v, diag_eps |-> 0,
           v_numeric |-> FALSE, v_iter |-> ""] : k \in {"x", "y"}, v \in {"", "u", "x", "y"}}
    \cup {[key |-> k, kind |-> "ConstService", e_str |-> "", v_str |-> "", diag_eps |-> 0,
           v_numeric |-> TRUE, v_iter |-> ""] : k \in {"x", "y"}}
    \cup {[key |-> k, kind |-> "ConstService", e_str |-> "", v_str |-> Other(k),
           diag_eps |-> 0, v_numeric |-> TRUE, v_iter |-> ""] : k \in {"x", "y"}}

\* the life cycle of a model: the constructor sets flags['nr_iter'] and
\* assigns every name once, x before y; the model is prepared, a device is
\* added, the values become arrays and the addresses are assigned; then the
\* model is initialized and its equations are evaluated
NextRun ==
    \/ /\ ~tex_sym /\ nobj = 3 /\ ~nr_iter /\ \E b \in {TRUE} : SetNrIter(b)
       /\ UNCHANGED <<pfVars, dataVars, regVars>>
    \/ /\ ~tex_sym
       /\ \E d \in DeclsRun : /\ dict[d.key] = NoObj
                              /\ d.key = "y" => dict["x"] # NoObj
                              /\ d.v_str # d.key
                              /\ SetAttr(d.key, ObjRun(nobj + 1, d))
       /\ UNCHANGED <<pfVars, dataVars, numVars>>
    \/ /\ Prepare
       /\ UNCHANGED <<pfVars, dataVars, numVars>>
    \/ /\ prep.status = "ok" /\ n = 0 /\ Add(FirstDevice)
       /\ UNCHANGED <<pfVars, regVars, numVars>>
    \/ /\ prep.status = "ok" /\ n > 0 /\ List2Array
       /\ UNCHANGED <<pfVars, dataVars, regVars>>
    \/ /\ listed /\ ~address /\ ncall = 0 /\ \E b \in BOOLEAN : SetInUse(b)
       /\ UNCHANGED <<pfVars, dataVars, regVars>>
    \/ /\ listed /\ SetAddress(n)
       /\ UNCHANGED <<pfVars, dataVars, regVars>>
    \/ /\ initialized /\ AReset
       /\ UNCHANGED <<pfVars, dataVars, regVars>>
    \/ /\ listed /\ address /\ \E rets \in {ArrayRets} : SUpdate(rets)
       /\ UNCHANGED <<pfVars, dataVars, regVars>>
    \/ /\ listed /\ address
       /\ \E outs \in [1..Len(vars_decl_order) -> InitOutcomes],
             iter_out \in {"ok", "NoConvergence"}, hook_out \in {"ok", "Exception"} :
              Init(outs, iter_out, hook_out)
       /\ UNCHANGED <<pfVars, dataVars, regVars>>
    \/ /\ initialized /\ InitIter
       /\ UNCHANGED <<pfVars, dataVars, regVars>>
    \/ /\ listed /\ address /\ FUpdate
       /\ UNCHANGED <<pfVars, dataVars, regVars>>
    \/ /\ listed /\ address /\ GUpdate
       /\ UNCHANGED <<pfVars, dataVars, regVars>>
    \/ /\ listed /\ address /\ JUpdate
       /\ UNCHANGED <<pfVars, dataVars, regVars>>
    \/ /\ initialized /\ \E src \in {"u"} : Alter(src)
       /\ UNCHANGED <<pfVars, dataVars, regVars>>

\* Model.set, model.py:718-742, with attr = 'v' on the first device:
\* self.<src>.v[uid] = value writes into the array the attribute is bound to
SetValue(src) ==
    /\ n > 0
    /\ dict[src] # NoObj
    /\ v_shape[dict[src].id] = "array"
    /\ v_val' = [v_val EXCEPT ![dict[src].id] = "set"]
    /\ UNCHANGED <<in_use, address, ext_len, triplets, ssp, initialized, nr_iter,
                   listed, v_id, input, narr, ncall, ini, sup>>
    /\ UNCHANGED updVars

\* Model.get_inputs called on its own, model.py:753-778
GetInputsCall(refresh) ==
    /\ input' = GetInputs(input, v_id, refresh)
    /\ UNCHANGED <<in_use, address, ext_len, triplets, ssp, initialized, nr_iter,
                   listed, v_id, v_val, narr, ncall, ini, sup>>
    /\ UNCHANGED updVars

\* a model whose constructor assigns parameters, services, discrete
\* components and variables to x and y, possibly a name twice; on the
\* prepared model the inputs are collected, with and without refresh
NextInp ==
    \/ /\ ~tex_sym
       /\ \E d \in Decls : /\ d.e_str \in {"", "x"}
                           /\ d.v_str \in {"", "x"}
                           /\ SetAttr(d.key, Obj(nobj + 1, d.kind, d.e_str, d.v_str))
       /\ UNCHANGED <<pfVars, dataVars, numVars>>
    \/ /\ Prepare
       /\ UNCHANGED <<pfVars, dataVars, numVars>>
    \/ /\ prep.status = "ok" /\ \E refresh \in BOOLEAN : GetInputsCall(refresh)
       /\ UNCHANGED <<pfVars, dataVars, regVars>>
    \/ /\ prep.status = "ok" /\ input # <<>> /\ FUpdate
       /\ UNCHANGED <<pfVars, dataVars, regVars>>
    \/ /\ prep.status = "ok" /\ input # <<>> /\ GUpdate
       /\ UNCHANGED <<pfVars, dataVars, regVars>>

\* a model with services: the constructor assigns them, x before y; the
\* model is prepared, gets a device or none, its values become arrays,
\* values are stored in the services and s_update is called
NextSvc ==
    \/ /\ ~tex_sym
       /\ \E d \in DeclsRun : /\ d.kind = "ConstService"
                              /\ dict[d.key] = NoObj
                              /\ d.key = "y" => dict["x"] # NoObj
                              /\ d.v_str # d.key
                              /\ SetAttr(d.key, ObjRun(nobj + 1, d))
       /\ UNCHANGED <<pfVars, dataVars, numVars>>
    \/ /\ Prepare
       /\ UNCHANGED <<pfVars, dataVars, numVars>>
    \/ /\ prep.status = "ok" /\ ~listed /\ n = 0 /\ Add(FirstDevice)
       /\ UNCHANGED <<pfVars, regVars, numVars>>
    \/ /\ prep.status = "ok" /\ List2Array
       /\ UNCHANGED <<pfVars, dataVars, regVars>>
    \/ /\ listed /\ ncall = 0 /\ \E b \in BOOLEAN : SetInUse(b)
       /\ UNCHANGED <<pfVars, dataVars, regVars>>
    \/ /\ listed /\ \E src \in {"x", "y"} : SetValue(src)
       /\ UNCHANGED <<pfVars, dataVars, regVars>>
    \/ /\ listed /\ \E rets \in Rets : SUpdate(rets)
       /\ UNCHANGED <<pfVars, dataVars, regVars>>

\* a model with equations, with or without a user-defined j_numeric and a
\* block: the constructor sets the flag, files the block and assigns the
\* variables, x before y; the prepared model gets a device and addresses,
\* its pattern is stored and its equations and Jacobians are evaluated
NextUpd ==
    \/ /\ ~tex_sym /\ nobj = 3 /\ ~j_num /\ \E b \in {TRUE} : SetJNum(b)
       /\ UNCHANGED <<pfVars, dataVars, regVars>>
    \/ /\ ~tex_sym /\ nobj = 3 /\ \E jn \in BOOLEAN : AddBlock(jn)
       /\ UNCHANGED <<pfVars, dataVars, regVars>>
    \/ /\ ~tex_sym
       /\ \E d \in DeclsJ : /\ d.kind \in {"Algeb", "State"}
                            /\ d.diag_eps = 0
                            /\ dict[d.key] = NoObj
                            /\ d.key = "y" => dict["x"] # NoObj
                            /\ SetAttr(d.key, ObjOf(nobj + 1, d))
       /\ UNCHANGED <<pfVars, dataVars, numVars>>
    \/ /\ Prepare
       /\ UNCHANGED <<pfVars, dataVars, numVars>>
    \/ /\ prep.status = "ok" /\ n = 0 /\ ~address /\ Add(FirstDevice)
       /\ UNCHANGED <<pfVars, regVars, numVars>>
    \/ /\ prep.status = "ok" /\ SetAddress(n)
       /\ UNCHANGED <<pfVars, dataVars, regVars>>
    \/ /\ AReset
       /\ UNCHANGED <<pfVars, dataVars, regVars>>
    \/ /\ StoreSparsePattern
       /\ UNCHANGED <<pfVars, dataVars, regVars>>
    \/ /\ prep.status = "ok" /\ FUpdate
       /\ UNCHANGED <<pfVars, dataVars, regVars>>
    \/ /\ prep.status = "ok" /\ GUpdate
       /\ UNCHANGED <<pfVars, dataVars, regVars>>
    \/ /\ prep.status = "ok" /\ JUpdate
       /\ UNCHANGED <<pfVars, dataVars, regVars>>

-----------------------------------------------------------------------------
(* Specifications *)

InitPF ==
    /\ \E m \in MethodNames, sl \in SparseLibs, t \in TolVals, mx \in MaxitVals :
           PFConfig(m, sl, t, mx)
    /\ Buses(0, <<>>, <<>>)
    /\ InitData
    /\ InitReg
    /\ InitNum

SpecPF == InitPF /\ [][NextPF]_vars

\* the solver loops and run() are straight-line code: every enabled step is taken
SpecPFLive == SpecPF /\ WF_vars(NextPF)

InitDataSpec ==
    /\ PFConfig("NR", "umfpack", 1, 0)
    /\ Buses(0, <<>>, <<>>)
    /\ InitData
    /\ InitReg
    /\ InitNum

\* generator lists of at most MaxGen entries over the buses of the system
GenLists(nb) == UNION {[1..k -> 0..(nb - 1)] : k \in 0..MaxGen}

InitIdx ==
    /\ PFConfig("FDPF", "umfpack", 1, MaxMaxit)
    /\ \E nb \in 1..MaxBus : \E sw \in GenLists(nb), pv \in GenLists(nb) :
           Buses(nb, sw, pv)
    /\ InitData
    /\ InitReg
    /\ InitNum

SpecIdx == InitIdx /\ [][FdpfIndexing]_vars

SpecData == InitDataSpec /\ [][NextData]_vars
SpecFind == InitDataSpec /\ [][NextFind]_vars

SpecReg == InitDataSpec /\ [][NextReg]_vars

SpecJac == InitDataSpec /\ [][NextJac]_vars

SpecRun == InitDataSpec /\ [][NextRun]_vars

SpecUpd == InitDataSpec /\ [][NextUpd]_vars

SpecSvc == InitDataSpec /\ [][NextSvc]_vars

SpecInp == InitDataSpec /\ [][NextInp]_vars

-----------------------------------------------------------------------------
(* Properties of the device container *)

\* what the claim C7 says of a container after a sequence of add calls
Idx2uidIsInsertionOrder ==
    /\ n = Len(added)
    /\ Cardinality(DOMAIN uid) = n
    /\ {uid[k] : k \in DOMAIN uid} = 0..(n - 1)
    /\ \A i \in 1..Len(added) :
          /\ Idx2uid(added[i].idx) = [exc |-> "None", isNone |-> FALSE, pos |-> i - 1]
          /\ Get("p", added[i].idx) = [exc |-> "None", val |-> added[i].p]
          /\ Get("u", added[i].idx) = [exc |-> "None", val |-> added[i].u]

\* C7 (as stated): after any sequence of add calls idx2uid maps the declared
\* indices one-to-one onto 0..N-1 in insertion order, N = len(container),
\* and get by index returns the value supplied when the device was added.
C7_Idx2uidBijectionAnyAdds == Idx2uidIsInsertionOrder

\* the idx values of the add calls are pairwise different dictionary keys
\* and none of them is None
DistinctIdx ==
    /\ \A i \in 1..Len(added) : added[i].idx # PyNone
    /\ \A i, j \in 1..Len(added) : (i # j) => ~PyEq(added[i].idx, added[j].idx)

\* C7 (amended): after any sequence of add calls whose idx values are
\* pairwise distinct and not None, idx2uid maps the declared indices
\* one-to-one onto 0..N-1 in insertion order and get by index returns the
\* value supplied when the device was added.
C7_Idx2uidBijectionDistinctIdx == DistinctIdx => Idx2uidIsInsertionOrder

\* C7 witness: get on the first of several devices with distinct idx returned
\* the value it was added with
C7_Witness ==
    /\ n >= 2 /\ DistinctIdx
    /\ op = "get" /\ got.src = "p" /\ got.idx = added[1].idx
    /\ got.exc = "None" /\ got.val = added[1].p /\ added[1].p # added[2].p

\* the queries of the last find_idx call that no device matches on all keys
Unmatched ==
    {q \in 1..Len(found.values[1]) :
        \A pos \in 1..Len(idx_v) :
            ~RowMatches(found.keys, [k \in 1..Len(found.keys) |-> found.values[k][q]], pos)}

\* C9: with allow_missing false find_idx raises a lookup error as soon as one
\* query has no matching device and returns no partial result; with
\* allow_missing true it raises nothing and puts at the query's position a
\* not-found sentinel that differs from every idx a device can be declared
\* with.
C9_MissingRaisesOrGivesSentinel ==
    (op = "find_idx") =>
        /\ (~found.allow /\ Unmatched # {}) => (found.raised /\ found.out = <<>>)
        /\ found.allow =>
              /\ ~found.raised
              /\ \A q \in Unmatched : \A d \in IdxVals : ~PyEq(found.out[q], d)

-----------------------------------------------------------------------------
(* Properties of the attribute registry and of symbol generation *)

CollNames == {"params", "num_params", "idx_params", "timer_params", "states",
              "states_ext", "algebs", "algebs_ext", "vars_decl_order",
              "params_ext", "discrete", "services", "services_ref",
              "services_ext", "services_ops"}

Coll(c) ==
    CASE c = "params" -> params
      [] c = "num_params" -> num_params
      [] c = "idx_params" -> idx_params
      [] c = "timer_params" -> timer_params
      [] c = "states" -> states
      [] c = "states_ext" -> states_ext
      [] c = "algebs" -> algebs
      [] c = "algebs_ext" -> algebs_ext
      [] c = "vars_decl_order" -> vars_decl_order
      [] c = "params_ext" -> params_ext
      [] c = "discrete" -> discrete
      [] c = "services" -> services
      [] c = "services_ref" -> services_ref
      [] c = "services_ext" -> services_ext
      [] c = "services_ops" -> services_ops

\* the typed collections that match an object's kind
MatchingColls(kind) ==
    CASE kind = "NumParam"     -> {"params", "num_params"}
      [] kind = "IdxParam"     -> {"params", "idx_params"}
      [] kind = "DataParam"    -> {"params"}
      [] kind = "ExtParam"     -> {"params", "num_params", "params_ext"}
      [] kind = "TimerParam"   -> {"params", "num_params", "timer_params"}
      [] kind = "Algeb"        -> {"algebs", "vars_decl_order"}
      [] kind = "State"        -> {"states", "vars_decl_order"}
      [] kind = "ExtAlgeb"     -> {"algebs_ext", "vars_decl_order"}
      [] kind = "ExtState"     -> {"states_ext", "vars_decl_order"}
      [] kind = "Discrete"     -> {"discrete"}
      [] kind = "ConstService" -> {"services"}
      [] kind = "ExtService"   -> {"services_ext"}
      [] kind = "BackRef"      -> {"services_ref"}
      [] OTHER                 -> {}

\* C8: after a name is assigned a second time the last write wins
\* everywhere: the attribute and every typed collection hold only the
\* last-assigned object under that name, the name being filed in exactly the
\* collections that match the last object's kind.
C8_LastWriteWinsEverywhere ==
    \A k \in AttrNames : \A c \in CollNames :
        /\ ODHas(Coll(c), k) => (ODGet(Coll(c), k) = dict[k])
        /\ ODHas(Coll(c), k) <=> (c \in MatchingColls(dict[k].kind))

\* the names filed in one of the given collections
FiledIn(cs) == {k \in AttrNames : \E c \in cs : ODHas(Coll(c), k)}

VarColls == {"states", "states_ext", "algebs", "algebs_ext"}

\* the symbol names of the claim C10: all parameter, variable, service and
\* config option names and the time symbol
ClaimedNames ==
    FiledIn({"params"}) \cup FiledIn(VarColls)
    \cup FiledIn({"services", "services_ext", "services_ref", "services_ops"})
    \cup Range(ConfigKeys) \cup {"dae_t"}

VisibleNames ==
    (FiledIn({"num_params", "services", "services_ext", "services_ops"})
        \ FiledIn({"discrete"}))
    \cup UNION {Range(FlagNames(k)) : k \in FiledIn({"discrete"})}
    \cup FiledIn(VarColls)
    \cup Range(ConfigKeys) \cup {"dae_t"}

-----------------------------------------------------------------------------
(* Properties of the compiled Jacobians and of the sparsity pattern *)

\* the equations of the block a Jacobian name stands for: the differential
\* ones for f, the algebraic ones for g
BlockEquations(jname) ==
    IF jname \in {"fxc", "fx", "fyc", "fy"} THEN cache.states_and_ext
    ELSE cache.algebs_and_ext

\* the equation at position row of a list of equations references, and so
\* has a structurally nonzero derivative with respect to, the variable at
\* position col of the variable list
NonzeroAt(eqs, row, col) ==
    /\ row + 1 <= Len(eqs)
    /\ col + 1 <= Len(vars_dict)
    /\ eqs[row + 1].val.e_str = vars_dict[col + 1]

\* C11 (as stated): every (row, col) pair of every compiled triplet list is
\* an (equation index, variable index) pair with a structurally nonzero
\* partial derivative; a zero derivative never produces a triplet.
C11_EveryTripletIsNonzeroDerivative ==
    cache.eq_filled =>
        \A i \in 1..Len(calls_jac) :
            NonzeroAt(BlockEquations(calls_jac[i].jname), calls_jac[i].row, calls_jac[i].col)

\* the equations that generate_jacobians differentiated for a triplet:
\* df_sparse comes from the differential, dg_sparse from the algebraic ones
DifferentiatedEquations(t) ==
    IF t.src = 0 THEN cache.states_and_ext ELSE cache.algebs_and_ext

\* C11 (amended): every triplet that generate_jacobians takes from df_sparse
\* or dg_sparse is an (equation index, variable index) pair of the
\* differentiated equation list and the variable list for which the partial
\* derivative is structurally nonzero; the only other triplets are the
\* diag_eps entries of gyc, one on the diagonal position of every algebraic
\* variable with a nonzero diag_eps, whatever the derivative there is.
C11_DerivativeTripletsAreNonzero ==
    cache.eq_filled =>
        \A i \in 1..Len(calls_jac) :
            LET t == calls_jac[i]
            IN IF t.src \in {0, 1}
               THEN NonzeroAt(DifferentiatedEquations(t), t.row, t.col)
               ELSE /\ t.jname = "gyc"
                    /\ \E a \in 1..Len(algebs) :
                          /\ algebs[a].val.diag_eps # 0
                          /\ cache.algebs_and_ext[t.row + 1].key = algebs[a].key
                          /\ vars_dict[t.col + 1] = algebs[a].key

\* C11 witness: a prepared model with two variables, one triplet from a
\* nonzero derivative, a zero derivative without triplet and a diag_eps entry
C11_Witness ==
    /\ prep.status = "ok"
    /\ Len(vars_dict) = 2
    /\ \E i \in 1..Len(calls_jac) : calls_jac[i].src = 1
    /\ \E i \in 1..Len(calls_jac) : calls_jac[i].src = 2
    /\ \E r \in 1..Len(cache.algebs_and_ext) : \E c \in 1..2 :
          /\ cache.algebs_and_ext[r].val.e_str # vars_dict[c]
          /\ \A i \in 1..Len(calls_jac) :
                calls_jac[i].src = 1 => <<calls_jac[i].row, calls_jac[i].col>> # <<r - 1, c - 1>>

\* C12: running prepare a second time on an unchanged model definition
\* completes and leaves every Jacobian block of the compiled bundle with the
\* same (row, col) entries as after the first run.
C12_SecondPrepareIsIdempotent ==
    [][(prep.status = "ok" /\ Prepare) =>
           (prep'.status = "ok" /\ calls_jac' = calls_jac)]_vars

\* C13: for every compiled triplet of every Jacobian block, the equation and
\* the variable that store_sparse_pattern resolves from the local indices are
\* the equation and the variable for which generate_jacobians computed the
\* derivative, for every combination of declared states, external states,
\* algebraics and external algebraics.
C13_LookupResolvesDifferentiatedPair ==
    (ssp.status \notin {"none", "skipped"}) =>
        /\ ssp.status \notin {"IndexError", "AttributeError"}
        /\ \A i \in 1..Len(triplets) :
              /\ triplets[i].row_name = triplets[i].eq
              /\ triplets[i].col_name = triplets[i].var

\* no attribute name has been assigned twice
NoRedefinition == nobj - 3 = Cardinality({k \in AttrNames : dict[k].id > 3})

\* the lookup of C13 resolves the differentiated pair on every model whose
\* attribute names were assigned once
LookupResolvesWithoutRedefinition ==
    NoRedefinition => C13_LookupResolvesDifferentiatedPair

\* the row and column address arrays of a stored entry have the same length
EqualAddressLengths(row_name, col_name) ==
    ALen(dict[row_name]) = ALen(dict[col_name])

\* C14: store_sparse_pattern raises (it does not skip or drop the entry) at
\* the first compiled triplet whose row-address and column-address arrays
\* have different lengths, and appends nothing for that triplet: a call that
\* returns has stored every compiled triplet, each with equal lengths; a call
\* that raises the length error has stored exactly the triplets before the
\* offending one, all with equal lengths.
C14_LengthMismatchRaises ==
    (ssp.status \notin {"none", "skipped"}) =>
        /\ \A i \in 1..Len(triplets) :
              EqualAddressLengths(triplets[i].row_name, triplets[i].col_name)
        /\ (ssp.status = "ok") => (Len(triplets) = Len(calls_jac))
        /\ (ssp.status = "ValueError") =>
              LET t == StoreOrder(1)[ssp.at]
              IN /\ Len(triplets) = ssp.at - 1
                 /\ ~EqualAddressLengths(EqNames(t.jname)[t.row + 1],
                                         ODKeys(cache.all_vars)[t.col + 1])

\* C14 witness: the second compiled triplet pairs an internal with an
\* external variable whose address arrays differ in length; the call raised
\* there and kept the first entry only
C14_Witness ==
    /\ ssp.status = "ValueError"
    /\ ssp.at = 2
    /\ Len(triplets) = 1
    /\ Len(calls_jac) >= 2
    /\ ext_len # n

-----------------------------------------------------------------------------
(* Properties of initialization, of the services and of the value arrays *)

\* init() was called and the initializer of some variable gave no value
SomeInitializerFailed ==
    /\ ini.status # "none"
    /\ \E i \in 1..Len(ini.evals) : ini.evals[i].out # "ok"

\* the variables that have an initializer, in declaration order
WithInitializer == SelectSeq(ODKeys(vars_decl_order),
                             LAMBDA k : ODGet(vars_decl_order, k).v_str # "")

\* C16: when the evaluation of a variable's initializer fails numerically
\* during init, the sequential pass does not raise, the variable keeps the
\* value it had before init, the remaining variables are still processed in
\* declaration order, and the model is marked initialized at the end
C16_FailedInitializerIsTolerated ==
    SomeInitializerFailed =>
        /\ ini.status \in {"ok", "NoConvergence", "Exception"}
        /\ \A i \in 1..Len(ini.evals) :
               ini.evals[i].out # "ok" => ini.evals[i].after = ini.evals[i].before
        /\ [i \in 1..Len(ini.evals) |-> ini.evals[i].name] = WithInitializer
        /\ ini.status = "ok" => ini.marked

\* the stages of a complete init call, in the order of model.py:1012-1036
ExpectedStages ==
    IF nr_iter THEN <<"s_update", "sequential", "init_iter", "v_numeric">>
    ELSE <<"s_update", "sequential", "v_numeric">>

\* C17: the initialized flag becomes true only in an init call in which the
\* sequential pass, then the iterative solve when the model requires it,
\* then the custom v_numeric hook ran in that order and none raised; a call
\* in which a stage raises leaves the flag as it was
C17_FlagSetOnlyByCompleteInit ==
    [][/\ (~initialized /\ initialized') =>
              /\ ncall' = ncall + 1
              /\ ini'.status = "ok"
              /\ ini'.stages = ExpectedStages
       /\ (ncall' = ncall + 1 /\ ini'.status # "ok") => initialized' = initialized]_vars

C17_Witness ==
    /\ initialized
    /\ ini.status = "ok"
    /\ ini.stages = <<"s_update", "sequential", "init_iter", "v_numeric">>
    /\ ini.evals # <<>>

\* C18: s_update evaluates the services in declaration order, an expression
\* that references a service declared before it reads the array that
\* service got in the same pass, and the custom numeric code of a service
\* runs only after every service has got its value from the first loop
C18_ServicesInOrderThenNumeric ==
    sup # <<>> =>
        /\ Len(sup) >= Len(services)
        /\ \A i \in 1..Len(services) :
               /\ sup[i].name = services[i].key
               /\ sup[i].phase = IF services[i].val.v_str # "" THEN "expr" ELSE "const"
               /\ \A j \in 1..(i - 1) :
                      services[i].val.v_str = services[j].key => sup[i].read = sup[j].wrote
        /\ \A i \in (Len(services) + 1)..Len(sup) :
               /\ sup[i].phase = "numeric"
               /\ ODGet(services, sup[i].name).v_numeric

C18_Witness ==
    /\ Len(services) = 2
    /\ services[2].val.v_str = services[1].key
    /\ Len(sup) > 2
    /\ sup[2].read = sup[1].wrote
    /\ sup[3].phase = "numeric"

\* the arrays refresh_inputs would file now
CurrentArrays == RefreshInputs(<<>>, v_id)

\* C19: after init, every entry of the cached input map that was taken from
\* a parameter, a service or a variable is the array now bound to the
\* attribute v of that object: f_update, g_update, j_update, init_iter and
\* alter bind no new array
C19_CachedInputsAreCurrentArrays ==
    (initialized /\ input # <<>>) =>
        \A i \in 1..Len(input) : \A j \in 1..Len(CurrentArrays) :
            CurrentArrays[j].key = input[i].key => CurrentArrays[j].val = input[i].val

C19_Witness ==
    /\ initialized
    /\ input # <<>>
    /\ v_val[dict["u"].id] = "alt"
    /\ \E i \in 1..Len(input) : input[i].key = "u" /\ input[i].val = v_id[dict["u"].id]
    /\ \E o \in ObjIds : v_val[o] = "sol"

-----------------------------------------------------------------------------
(* Properties of the power flow routine *)

Outcomes == {"Converged", "Diverged", "MaxIterExceeded"}

\* the run uses newton (after the method fallback of run)
UsesNewton == solvers[SelectedMethod(method)] = "newton"

\* newton has completed at least one pass of its loop and has not raised
NewtonIterated == UsesNewton /\ niter >= 1 /\ pc \in {"newton", "solved", "returned"}

\* newton has been left, by return or by an exception
NewtonEnded ==
    /\ UsesNewton
    /\ \/ pc \in {"solved", "returned"}
       \/ pc = "raised" /\ lastExc = "Unhandled"

\* C1: every run of newton performs at least one iteration and then ends in
\* exactly one of Converged, Diverged, MaxIterExceeded, and the returned flag
\* is true exactly when the outcome is Converged.
C1_NewtonEndsInOneOutcome ==
    NewtonEnded => /\ niter >= 1
                   /\ outcome \in Outcomes
                   /\ convergence <=> (outcome = "Converged")

\* C2: at an iteration k > 5 whose mismatch exceeds 1000 times the mismatch
\* of iteration 1 and is not below the tolerance, newton stops at k with
\* outcome Diverged; Diverged is never reported at an iteration k <= 5.
C2_DivergedOnlyAfterFive ==
    NewtonIterated =>
        /\ (niter > 5 /\ error > 1000 * mis0 /\ ~(error < tol))
              => (outcome = "Diverged" /\ pc # "newton")
        /\ (outcome = "Diverged") => niter > 5

\* C2 witness: the blow-up is met at an iteration beyond the cap as well, and
\* Diverged is what newton reports
C2_Witness ==
    /\ UsesNewton /\ pc = "solved" /\ outcome = "Diverged"
    /\ niter > 5 /\ niter > maxit /\ error > 1000 * mis0

\* C3 (as stated): newton reports Converged at an iteration exactly when the
\* maximum absolute component of the residual vector is below the tolerance.
C3_ConvergedIffResidualBelowTol ==
    NewtonIterated => ((outcome = "Converged") <=> (res < tol))

\* C3 (amended): newton reports Converged at an iteration exactly when the
\* maximum absolute component of the vector returned by calc_inc is below the
\* tolerance; that vector is the solved increment, and it is the residual
\* only when the solve raised a caught exception.
C3_ConvergedIffIncrementBelowTol ==
    NewtonIterated =>
        /\ (outcome = "Converged") <=> (error < tol)
        /\ (lastExc \in {"ValueError", "ArithmeticError"}) => (error = res)

\* C3 witness: converged on the increment while the residual is not below tol
C3_Witness ==
    /\ UsesNewton /\ pc = "solved" /\ outcome = "Converged"
    /\ error < tol /\ res >= tol

\* the iteration count of newton stays within one of the configured cap
C4_CapInv ==
    UsesNewton =>
        /\ niter <= maxit + 1
        /\ (pc = "newton" /\ niter >= 1) => niter <= maxit
        /\ (outcome = "MaxIterExceeded") => (niter = maxit + 1)

\* C4: newton terminates for every sequence of mismatch values; without
\* convergence or divergence it stops with MaxIterExceeded as soon as the
\* iteration count exceeds the cap, so it never performs more than cap + 1
\* iterations.
C4_NewtonTerminates ==
    /\ []C4_CapInv
    /\ UsesNewton => <>(pc \notin {"start", "newton"})

\* C4 witness: the cap ends a run that neither converged nor diverged
C4_Witness ==
    /\ UsesNewton /\ pc = "solved" /\ outcome = "MaxIterExceeded"
    /\ maxit = MaxMaxit /\ niter = maxit + 1

\* C5: a failure of the factorization or solve inside calc_inc is caught in
\* that step (ValueError sets the refactorization flag, ArithmeticError
\* triggers the diagonal repair) and newton goes on; in no step does it leave
\* newton as an unhandled exception.
C5_SolveFailureIsCaught ==
    UsesNewton =>
        /\ ~(pc = "raised" /\ lastExc = "Unhandled")
        /\ (lastExc = "ValueError") => factorize

\* C6: run returns false when the solver ends in Diverged or MaxIterExceeded
\* and true when it ends in Converged; post-processing is executed exactly
\* when the solver converged.
C6_RunReturnsConvergence ==
    /\ (pc = "returned") =>
          /\ outcome \in Outcomes
          /\ ret <=> (outcome = "Converged")
          /\ post <=> (outcome = "Converged")
    /\ (pc # "returned") => ~post

\* C6 witness: run returned false after a solver that did not converge
C6_Witness ==
    /\ pc = "returned" /\ outcome \in {"Diverged", "MaxIterExceeded"}
    /\ ~ret /\ ~post

\* the run uses fdpf and its loop has made at least one pass
FdpfIterated ==
    /\ solvers[SelectedMethod(method)] = "fdpf"
    /\ pc \in {"fdpf", "solved", "returned"}
    /\ mis0 # -1

\* C20: fdpf applies the stop rules of newton to its sequence of mismatches:
\* after each completed pass it goes on exactly when newton would go on
\* after as many iterations with the same first and last mismatch, and it
\* ends with the outcome and the convergence flag newton would end with
C20_FdpfStopsAsNewton ==
    FdpfIterated =>
        LET passes == niter - 1
            rule == NewtonExit(passes, error, mis0, tol, maxit)
        IN /\ (pc = "fdpf" /\ error > tol) => rule = "None"
           /\ pc \in {"solved", "returned"} =>
                  /\ outcome = rule
                  /\ convergence = (rule = "Converged")

-----------------------------------------------------------------------------
(* Properties of the symbolic factorization of calc_inc *)

\* a pass of the loop of newton in which calc_inc returned
NewtonPass == pc = "newton" /\ niter' = niter + 1

\* C22: calc_inc recomputes the symbolic factorization only in a step that
\* starts with the refactorization flag set, and it clears the flag in that
\* step (the flag is set again only by a ValueError of the numeric
\* factorization or of the solve of the same step); every other step hands
\* lib.numeric the factorization of the most recent recomputation
C22_SymbolicOnlyWhenFlagged ==
    [][/\ (F' # F) => (NewtonPass /\ factorize)
       /\ (NewtonPass /\ factorize) =>
              /\ F' = niter'
              /\ usedF' = F'
              /\ factorize' => lastExc' = "ValueError"
       /\ (NewtonPass /\ ~factorize) =>
              /\ F' = F
              /\ usedF' = F]_vars

\* a step has reused a factorization that was recomputed after the first
\* iteration, the flag being clear
C22_Witness ==
    /\ pc = "newton"
    /\ ~factorize
    /\ F > 1
    /\ niter > F
    /\ usedF = F

-----------------------------------------------------------------------------
(* Properties of the index lists of fdpf *)

\* the entries of l, in order, whose position in Bus_a holds an address
\* that is not in the set gone
Without(l, gone) ==
    LET keep == {i \in 1..Len(Bus_a) : Bus_a[i] \notin gone}
        F2[k \in 0..Len(l)] ==
            IF k = 0 THEN <<>>
            ELSE IF k \in keep THEN Append(F2[k - 1], l[k]) ELSE F2[k - 1]
    IN F2[Len(l)]

Addresses(l) == {l[i] : i \in 1..Len(l)}

\* C21: for any bus, slack and PV address lists the sort-and-pop loops of
\* fdpf end without an exception and leave in no_sw the bus angle addresses
\* minus those of the slack buses, in no_g the bus angle addresses minus
\* those of the slack and PV buses, and in no_swv and no_gv the voltage
\* addresses of the same buses
C21_PopIsSetDifference ==
    indexing # "todo" =>
        /\ indexing = "done"
        /\ no_sw = Without(Bus_a, Addresses(SW_a))
        /\ no_swv = Without(Bus_v, Addresses(SW_a))
        /\ no_g = Without(Bus_a, Addresses(SW_a) \cup Addresses(PV_a))
        /\ no_gv = Without(Bus_v, Addresses(SW_a) \cup Addresses(PV_a))

-----------------------------------------------------------------------------
(* Properties of the triplet store and of the update calls *)

\* C23: within each Jacobian name of the store built by
\* store_sparse_pattern, no entry merged from a block stands before an
\* entry of the model itself, generated or user-defined
C23_BlockEntriesLast ==
    (ssp.status = "ok") =>
        \A i \in 1..Len(triplets) : \A j \in 1..Len(triplets) :
            (i < j /\ triplets[i].jname = triplets[j].jname
                   /\ triplets[i].by = "block")
                => triplets[j].by = "block"

\* the store holds a value computed by j_update
JUpdated == \E i \in 1..Len(triplets) : triplets[i].val.kind = "fun"

\* the (row, col) pairs of the store and the Jacobian names they belong to
RowCols(trip) ==
    [i \in 1..Len(trip) |-> <<trip[i].jname, trip[i].row_name, trip[i].col_name>>]

\* C27: every value j_update writes into the store stands in the entry whose
\* rows and columns are the addresses of the equation and of the variable of
\* the compiled derivative that gave the value, also when the model or a
\* block has user-defined entries under the same Jacobian name; and j_update
\* changes no row and no column of the store
C27_ValuesMeetTheirEntries ==
    [][/\ \A i \in 1..Len(triplets') :
             (triplets'[i].val.kind = "fun") =>
                 /\ triplets'[i].row_name = triplets'[i].val.eq
                 /\ triplets'[i].col_name = triplets'[i].val.var
       /\ (ssp' = ssp /\ JUpdated') => RowCols(triplets') = RowCols(triplets)]_vars

\* C28: a call of store_sparse_pattern on a model whose pattern is stored
\* and whose devices and addresses are as they were leaves the store with
\* the (row, col) entries it had: nothing accumulates; and the store of a
\* model without devices or without addresses is empty after the call
C28_StoreIsRebuilt ==
    [][/\ (ssp.status # "none" /\ ssp'.status # "none" /\ n' = n /\ address' = address)
             => RowCols(triplets') = RowCols(triplets)
       /\ (ssp'.status # "none" /\ (n' = 0 \/ ~address')) => triplets' = <<>>]_vars

\* the pattern of a model with generated, user-defined and block entries has
\* been stored a second time, after the update calls
C28_Witness ==
    /\ ssp.status = "ok"
    /\ ssp.again
    /\ ~JUpdated
    /\ \A b \in {"generated", "user", "block"} :
           \E i \in 1..Len(triplets) : triplets[i].by = b
    /\ input # <<>>

\* C26: f_update and g_update write every compiled residual into the
\* equation array of the variable whose equation string it was compiled
\* from, also when a variable declared before it in the same group has no
\* equation string
C26_ResidualMeetsItsVariable ==
    \A o \in ObjIds : (e_src[o] # "") => dict[e_src[o]].id = o

-----------------------------------------------------------------------------
(* Properties of the values of the services *)

\* the i-th service has neither an expression nor custom numeric code
Plain(i) == services[i].val.v_str = "" /\ ~services[i].val.v_numeric

\* C24: after s_update has gone through the services of a model in use with
\* n > 0 devices, the value of every service is an array of length n, whether
\* it came from a constant, from a compiled expression that returned a
\* scalar, or from custom numeric code that returned a scalar
C24_EveryServiceIsAnArray ==
    (sup # <<>>) =>
        \A i \in 1..Len(services) : v_shape[services[i].val.id] = "array"

\* a call of s_update
SUpdateCall == ncall' = ncall + 1

\* C30, as stated: s_update leaves the value of a service that has neither
\* an expression nor custom numeric code as it was, and changes no service
\* value at all when the model has no device or is not in use
C30_PlainServiceKeepsItsValue ==
    [][SUpdateCall =>
          /\ \A i \in 1..Len(services) :
                Plain(i) => v_val'[services[i].val.id] = v_val[services[i].val.id]
          /\ (n = 0 \/ ~in_use) => (v_val' = v_val /\ v_id' = v_id)]_vars

\* C30, amended: s_update binds every service that has neither an expression
\* nor custom numeric code to a new array of zeros, whatever was stored in it;
\* when the model has no device or is not in use it changes no service value,
\* array or shape
C30_PlainServiceIsZeroed ==
    [][SUpdateCall =>
          IF n = 0 \/ ~in_use
          THEN v_val' = v_val /\ v_id' = v_id /\ v_shape' = v_shape
          ELSE \A i \in 1..Len(services) :
                  Plain(i) => /\ v_val'[services[i].val.id] = "zeros"
                              /\ v_id'[services[i].val.id] # v_id[services[i].val.id]
                              /\ v_shape'[services[i].val.id] = "array"]_vars

\* s_update has run on a model with a service that has neither an expression
\* nor custom numeric code, next to a service with custom numeric code
C30_Witness ==
    /\ sup # <<>>
    /\ \E i \in 1..Len(services) : Plain(i) /\ v_val[services[i].val.id] = "zeros"
    /\ \E i \in 1..Len(services) : v_val[services[i].val.id] = "numeric"

-----------------------------------------------------------------------------
(* Properties of the input map *)

\* C25: on a prepared model the names of the input map built by get_inputs
\* are, in order, the names the callables were compiled with (inputs_dict),
\* dae_t last, after any number of calls with and without refresh, so that
\* f_update and g_update bind every value to its own symbol when they pass
\* the values by position
C25_InputNamesAreCompiledNames ==
    (prep.status = "ok" /\ input # <<>>) => ODKeys(input) = inputs_dict

\* the names agree on every model whose attribute names were assigned once
InputNamesWithoutRedefinition == NoRedefinition => C25_InputNamesAreCompiledNames

-----------------------------------------------------------------------------
(* Properties of the search by value *)

\* the number of queries of the last find_idx call, as the caller gave them
Queries == IF found.single THEN Len(found.given) ELSE Len(found.given[1])

\* the value query q of the last find_idx call searches for its k-th key
Searched(q, k) == IF found.single THEN found.given[q] ELSE found.given[k][q]

\* the devices, by position, that equal query q on every key
Matching(q) ==
    {pos \in 1..Len(idx_v) :
        \A k \in 1..Len(found.keys) :
            PyEq(Searched(q, k), ParamV(found.keys[k])[pos])}

\* C29: for a single string key and a list of k search values, numbers or
\* strings alike, find_idx returns a list of exactly k entries, entry i being
\* the idx of the first device in insertion order whose value for that key
\* equals search value i; with several keys, entry i is the idx of the first
\* device that equals query i on every key.  The call raises only if some
\* query has no such device.
C29_FindIdxGivesFirstMatches ==
    (op = "find_idx") =>
        /\ found.raised => \E q \in 1..Queries : Matching(q) = {}
        /\ ~found.raised =>
              /\ Len(found.out) = Queries
              /\ \A q \in 1..Queries :
                    (Matching(q) # {}) =>
                        \E pos \in Matching(q) :
                            /\ \A o \in Matching(q) : pos <= o
                            /\ found.out[q] = idx_v[pos]

\* the same on every call whose search values are numbers
FindIdxOfNumbers ==
    (op = "find_idx" /\ \A q \in 1..Queries : \A k \in 1..Len(found.keys) :
                            ~Iterable(Searched(q, k)))
        => C29_FindIdxGivesFirstMatches

====
